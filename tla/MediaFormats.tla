---------------------------- MODULE MediaFormats ----------------------------
(* How the engine turns the answer of yt-dlp about one video into the        *)
(* outputs it offers (analysis/ytdlp.rs).  A text is a member of a small     *)
(* set: one of the ways in which it cannot be used, or a name.  An optional  *)
(* number that is absent is Absent.                                          *)
EXTENDS Integers, FiniteSets, Checks

CONSTANTS
    FormatIds,     \* the format identities, in the order of their text
    MaxFormats,    \* MAX_FORMATS
    MaxThumbnails, \* MAX_RAW_THUMBNAILS
    MaxPublic,     \* MAX_PUBLIC_THUMBNAILS
    MaxDimension,  \* MAX_DIMENSION
    MaxNumber,     \* the largest rate, size or count that is accepted
    LongestSeconds \* the longest length that is accepted, in seconds: seven days

ASSUME FormatsAssumption ==
    /\ FormatIds \in Seq(STRING)
    /\ MaxDimension \in Nat /\ MaxNumber \in Nat /\ LongestSeconds \in Nat

Absent     == -1
Mp3Bitrates == <<128, 192, 256, 320>>

(* A text must be there, not blank, bounded and without control characters;  *)
(* an optional one may be missing or blank.                                  *)
UnusableText       == {"missing", "blank", "too long", "control"}
RequiredFails(text) == text \in UnusableText
OptionalFails(text) == text \in UnusableText \ {"missing", "blank"}

InRange(number, low, high) == number = Absent \/ number \in low..high

-----------------------------------------------------------------------------
(* One format.                                                               *)

(* "other" is any name that fits no family.                                  *)
VideoFamily(codec) ==
    CASE codec \in {"avc1", "h264"} -> "H264" [] codec \in {"vp9", "vp09"} -> "Vp9"
      [] codec \in {"av01", "av1"}  -> "Av1"  [] codec = "none" -> "none" [] OTHER -> "Other"
AudioFamily(codec) ==
    CASE codec \in {"mp4a", "aac"}  -> "Aac"  [] codec = "opus" -> "Opus"
      [] codec = "vorbis" -> "Vorbis" [] codec = "mp3" -> "Mp3"
      [] codec = "none" -> "none"     [] OTHER -> "Other"
ContainerFamily(ext) ==
    CASE ext = "mp4" -> "Mp4" [] ext = "m4a" -> "M4a" [] ext = "webm" -> "Webm" [] OTHER -> "Other"

(* A format without any media, such as a storyboard, is passed over.         *)
HasMedia(raw) == raw.vcodec # "none" \/ raw.acodec # "none"

TextFault(raw) == FirstFault(<<
    Check(RequiredFails(raw.id),     "format_id"),
    Check(RequiredFails(raw.ext),    "ext"),
    Check(RequiredFails(raw.vcodec), "vcodec"),
    Check(RequiredFails(raw.acodec), "acodec")>>)

NumberFault(raw) == FirstFault(<<
    Check(raw.vcodec # "none" /\ raw.height = Absent,   "height"),
    Check(~InRange(raw.width, 1, MaxDimension),         "width"),
    Check(~InRange(raw.height, 1, MaxDimension),        "height"),
    Check(~InRange(raw.fps, 1, MaxNumber),              "fps"),
    Check(~InRange(raw.size, 1, MaxNumber),             "filesize"),
    Check(~InRange(raw.approximate, 1, MaxNumber),      "filesize_approx"),
    Check(\E rate \in {raw.tbr, raw.vbr, raw.abr} : ~InRange(rate, 0, MaxNumber), "bitrate")>>)

FormatFault(raw) ==
    IF TextFault(raw) # "none" THEN TextFault(raw)
    ELSE IF HasMedia(raw) THEN NumberFault(raw) ELSE "none"

OrElse(number, other) == IF number = Absent THEN other ELSE number

NormalFormat(raw) ==
    [id |-> raw.id, container |-> ContainerFamily(raw.ext),
     video |-> VideoFamily(raw.vcodec), audio |-> AudioFamily(raw.acodec),
     width |-> raw.width, height |-> raw.height, fps |-> raw.fps,
     size |-> OrElse(raw.size, raw.approximate),
     total |-> OrElse(raw.tbr, 0), videoRate |-> OrElse(raw.vbr, 0),
     audioRate |-> OrElse(raw.abr, 0)]

-----------------------------------------------------------------------------
(* The choice of the sources.                                                *)

HasVideo(format) == format.video # "none"
HasAudio(format) == format.audio # "none"
IsMp4Family(format) == format.container \in {"Mp4", "M4a"}
Point(condition) == IF condition THEN 1 ELSE 0
Larger(a, b) == IF a > b THEN a ELSE b
Place(id) == CHOOSE i \in DOMAIN FormatIds : FormatIds[i] = id

(* Scores are compared field by field.                                       *)
VideoScore(f) == <<Point(f.video = "H264"), Point(IsMp4Family(f)), Point(f.audio = "Aac"),
                   Larger(f.videoRate, f.total), OrElse(f.fps, 0), OrElse(f.size, 0), Place(f.id)>>
AudioScore(f) == <<Point(f.audio = "Aac"), Point(IsMp4Family(f)), Point(~HasVideo(f)),
                   Larger(f.audioRate, f.total), 0, OrElse(f.size, 0), Place(f.id)>>
Mp3Score(f)   == <<Point(~HasVideo(f)), 0, 0,
                   Larger(f.audioRate, f.total), 0, OrElse(f.size, 0), Place(f.id)>>

Beats(score, other) ==
    \E i \in DOMAIN score :
        score[i] > other[i] /\ \A j \in 1..i - 1 : score[j] = other[j]

SelectBest(formats, Score(_)) ==
    CHOOSE f \in formats : \A g \in formats \ {f} : Beats(Score(f), Score(g))

(* A video that brings AAC sound is its own audio source.                    *)
AudioFor(formats, video) ==
    IF video.audio = "Aac" THEN video
    ELSE SelectBest({f \in formats : HasAudio(f)}, AudioScore)

(* Mutant of CompatibilityWork: one source that brings both needs no work.   *)
CompatibilityWorkBySource(video, audio) ==
    CASE video.id = audio.id   -> "None"
      [] audio.audio = "Aac"   -> IF video.video = "H264" THEN "Merge" ELSE "VideoTranscode"
      [] video.video = "H264"  -> "AudioTranscode"
      [] OTHER                 -> "VideoAndAudioTranscode"

CompatibilityWork(video, audio) ==
    CASE video.video = "H264" /\ audio.audio = "Aac" ->
            IF video.id = audio.id THEN "None" ELSE "Merge"
      [] video.video # "H264" /\ audio.audio = "Aac" -> "VideoTranscode"
      [] video.video = "H264" /\ audio.audio # "Aac" -> "AudioTranscode"
      [] OTHER -> "VideoAndAudioTranscode"

(* The size is known when the size of each source is.                        *)
CombinedSize(video, audio) ==
    CASE video.id = audio.id -> video.size
      [] Absent \in {video.size, audio.size} -> Absent
      [] OTHER -> video.size + audio.size

Mp3Offer(bitrate, source) ==
    [kind |-> "mp3", quality |-> bitrate, video |-> source, audio |-> source,
     work |-> "Transcode", size |-> Absent]
Mp4Offer(height, video, audio) ==
    [kind |-> "mp4", quality |-> height, video |-> video, audio |-> audio,
     work |-> CompatibilityWork(video, audio), size |-> CombinedSize(video, audio)]

Descending(S) ==
    CHOOSE s \in [1..Cardinality(S) -> S] : \A i, j \in DOMAIN s : i < j => s[i] > s[j]

(* Without any sound nothing is offered: a video needs an audio source too.  *)
Offers(formats) ==
    LET sounding == {f \in formats : HasAudio(f)}
        heights  == Descending({f.height : f \in {g \in formats : HasVideo(g)}})
        Mp4(h)   == LET video == SelectBest({f \in formats : HasVideo(f) /\ f.height = h},
                                            VideoScore)
                    IN  Mp4Offer(h, video, AudioFor(formats, video))
        best     == SelectBest(sounding, Mp3Score)
    IN  IF sounding = {} THEN <<>>
        ELSE [i \in DOMAIN Mp3Bitrates |-> Mp3Offer(Mp3Bitrates[i], best)]
             \o [i \in DOMAIN heights |-> Mp4(heights[i])]

(* One format that is not valid, or two of the same identity, fail it all.   *)
FaultAt(raws, i) ==
    IF FormatFault(raws[i]) # "none" THEN FormatFault(raws[i])
    ELSE IF HasMedia(raws[i]) /\ \E j \in 1..i - 1 : HasMedia(raws[j]) /\ raws[j].id = raws[i].id
    THEN "duplicate id" ELSE "none"

Normalized(raws) == {NormalFormat(raws[i]) : i \in {j \in DOMAIN raws : HasMedia(raws[j])}}

FormatsFault(raws) ==
    IF Len(raws) > MaxFormats THEN "too many formats"
    ELSE LET fault == FirstFaultOf([i \in DOMAIN raws |-> i], LAMBDA i : FaultAt(raws, i))
         IN  IF fault = "none" /\ Offers(Normalized(raws)) = <<>> THEN "no usable formats" ELSE fault

-----------------------------------------------------------------------------
(* The whole answer.                                                         *)

(* Only one finished public video is in scope.                               *)
ContentFault(raw) == FirstFault(<<
    Check(raw.type \in {"playlist", "multi_video"}, "playlist"),
    Check(raw.type \notin {"missing", "video"},     "other type"),
    Check(raw.isLive,                               "live"),
    Check(raw.liveStatus = "is_live",               "live"),
    Check(raw.liveStatus \in {"is_upcoming", "post_live"}, raw.liveStatus),
    Check(raw.liveStatus \notin {"missing", "not_live", "was_live"}, "other type"),
    Check(raw.availability \notin {"missing", "public", "unlisted"}, raw.availability)>>)

DaysInMonth(year, month) ==
    CASE month \in {1, 3, 5, 7, 8, 10, 12} -> 31
      [] month \in {4, 6, 9, 11} -> 30
      [] year % 400 = 0 \/ (year % 4 = 0 /\ year % 100 # 0) -> 29
      [] OTHER -> 28

(* A date is <<year, month, day>>; <<>> when it is absent.                   *)
DateFails(date) ==
    date # <<>> /\ ~(/\ date[1] \in 2005..2100 /\ date[2] \in 1..12
                     /\ date[3] \in 1..DaysInMonth(date[1], date[2]))

(* Too many thumbnails fail; past the public ones they are not looked at.    *)
ThumbnailsFail(thumbnails) ==
    \/ Len(thumbnails) > MaxThumbnails
    \/ \E i \in DOMAIN thumbnails :
          /\ i <= MaxPublic
          /\ \/ RequiredFails(thumbnails[i].url) \/ thumbnails[i].url # "web"
             \/ ~InRange(thumbnails[i].width, 1, MaxDimension)

(* What the process may answer: cancelled, an output past a limit, an output *)
(* that is not UTF-8, a failure, a text that is not the JSON expected.       *)
ProcessFault(answer) == FirstFault(<<
    Check(answer.ended = "cancelled",   "cancelled"),
    Check(answer.ended \notin {"exited", "failed"}, "process"),
    Check(answer.output = "past limit", "output limit"),
    Check(answer.output = "bad stderr", "encoding"),
    Check(answer.ended = "failed",      "extraction"),
    Check(answer.output = "bad stdout", "encoding"),
    Check(answer.output = "not json",   "json")>>)

MediaFault(raw, requested) == FirstFault(<<
    Check(ContentFault(raw) # "none",      "unsupported content"),
    Check(RequiredFails(raw.id),           "id"),
    Check(raw.id # requested,              "id mismatch"),
    Check(RequiredFails(raw.title),        "title"),
    Check(OptionalFails(raw.uploader),     "uploader"),
    Check(raw.duration \notin 1..LongestSeconds, "duration"),
    Check(~InRange(raw.views, 0, MaxNumber), "view_count"),
    Check(DateFails(raw.date),             "upload_date"),
    Check(ThumbnailsFail(raw.thumbnails),  "thumbnails"),
    Check(FormatsFault(raw.formats) # "none", FormatsFault(raw.formats))>>)

Analyze(answer, requested) ==
    IF ProcessFault(answer) # "none" THEN [fault |-> ProcessFault(answer)]
    ELSE IF MediaFault(answer.raw, requested) # "none"
    THEN [fault |-> MediaFault(answer.raw, requested)]
    ELSE [fault |-> "none", id |-> answer.raw.id, duration |-> answer.raw.duration,
          offers |-> Offers(Normalized(answer.raw.formats))]
=============================================================================
