--------------------------- MODULE OutputProduction ---------------------------
(* What an attempt does with the sources of the output it was asked for, and *)
(* how it checks what FFmpeg made (download/service.rs).  What FFmpeg and    *)
(* ffprobe do is external: a copied stream keeps its codec, an encoded one   *)
(* has the codec that was asked for, and a linked file is its source.        *)
EXTENDS MediaFormats, JobLifecycle

CONSTANTS
    ShortestTolerance, \* 1000: the bounds of the tolerated difference in length
    LongestTolerance   \* 5000

ASSUME ProductionAssumption ==
    ShortestTolerance \in Nat /\ ShortestTolerance >= 1000 /\ LongestTolerance \in Nat

Unavailable == [kind |-> "unavailable"]

(* The first offer of the kind and quality that were requested.              *)
ResolveFormat(offers, selection) ==
    LET Fits(o) == o.kind = selection.kind /\ o.quality = selection.quality
    IN  IF \E i \in DOMAIN offers : Fits(offers[i]) THEN FirstWith(offers, Fits) ELSE Unavailable

SameSource(offer) == offer.kind = "mp3" \/ offer.video.id = offer.audio.id

(* Which streams FFmpeg is told to copy; it encodes the others.              *)
CopiesVideo(offer) ==
    offer.video.video = "H264" /\ offer.work \notin {"VideoTranscode", "VideoAndAudioTranscode"}
CopiesAudio(offer) ==
    offer.audio.audio = "Aac" /\ offer.work \notin {"AudioTranscode", "VideoAndAudioTranscode"}

(* A source that needs no work is linked or copied under the work name; the  *)
(* rest is FFmpeg's, into a container named by the extension.                *)
IsLinked(offer) == offer.kind = "mp4" /\ offer.work = "None"

Stream(type, codec, height, pixels) ==
    [type |-> type, codec |-> codec, height |-> height, width |-> height, pixels |-> pixels]

CodecName(family) ==
    CASE family = "H264" -> "h264" [] family = "Aac" -> "aac" [] family = "Mp3" -> "mp3"
      [] OTHER -> "other"

(* The streams of the work file.  pixels is how the pictures of the source   *)
(* are stored, which the analysis does not tell.                             *)
VideoStream(offer, pixels) ==
    IF IsLinked(offer) \/ CopiesVideo(offer)
    THEN Stream("video", CodecName(offer.video.video), offer.video.height, pixels)
    ELSE Stream("video", "h264", offer.video.height, "yuv420p")
AudioStream(offer) ==
    IF IsLinked(offer) \/ CopiesAudio(offer)
    THEN Stream("audio", CodecName(offer.audio.audio), Absent, "none")
    ELSE Stream("audio", "aac", Absent, "none")

ContainerName(container) == IF container \in {"Mp4", "M4a"} THEN "mp4" ELSE "webm"

(* A length in milliseconds as ffprobe prints it: seconds and a fraction.    *)
Shown(millis) ==
    [whole |-> millis \div 1000,
     digits |-> <<(millis \div 100) % 10, (millis \div 10) % 10, millis % 10, 0, 0, 0>>]

Produce(offer, pixels, millis) ==
    IF offer.kind = "mp3"
    THEN [container |-> "mp3", length |-> Shown(millis),
          streams |-> <<Stream("audio", "mp3", Absent, "none")>>]
    ELSE [container |-> IF IsLinked(offer) THEN ContainerName(offer.video.container) ELSE "mp4",
          length |-> Shown(millis),
          streams |-> <<VideoStream(offer, pixels), AudioStream(offer)>>]

-----------------------------------------------------------------------------
(* The verification of the work file.                                        *)

(* Three digits of the fraction count, missing ones as zero.                 *)
Digit(digits, i) == IF i \in DOMAIN digits THEN digits[i] ELSE 0
ParseLength(length) ==
    LET millis == length.whole * 1000 + Digit(length.digits, 1) * 100
                  + Digit(length.digits, 2) * 10 + Digit(length.digits, 3)
    IN  IF length.whole > LongestSeconds \/ millis = 0 THEN Absent ELSE millis

Distance(a, b) == IF a > b THEN a - b ELSE b - a
Smaller(a, b) == IF a < b THEN a ELSE b
Tolerance(expected) == Larger(ShortestTolerance, Smaller(LongestTolerance, expected \div 100))

FirstStream(probe, type) ==
    LET Fits(s) == s.type = type
    IN  IF \E i \in DOMAIN probe.streams : Fits(probe.streams[i])
        THEN FirstWith(probe.streams, Fits) ELSE Stream("none", "none", Absent, "none")

ValidateProbe(probe, selection, expected) ==
    LET video == FirstStream(probe, "video")
        audio == FirstStream(probe, "audio")
        length == ParseLength(probe.length)
        isMp3 == selection.kind = "mp3"
    IN  FirstFault(<<
            Check(length = Absent, "no length"),
            Check(Distance(length, expected) > Tolerance(expected), "length"),
            Check(isMp3 /\ (probe.container # "mp3" \/ audio.codec # "mp3"), "not mp3"),
            Check(~isMp3 /\ video.type = "none", "no video"),
            Check(/\ ~isMp3
                  /\ \/ probe.container # "mp4"
                     \/ video.codec # "h264" \/ audio.codec # "aac", "not mp4"),
            Check(~isMp3 /\ video.height = Absent, "no height"),
            Check(~isMp3 /\ video.height > selection.quality, "height"),
            Check(~isMp3 /\ video.width = Absent, "no width"),
            Check(~isMp3 /\ video.pixels # "yuv420p", "pixels")>>)

-----------------------------------------------------------------------------
(* The stages that are reported on the way, and how a tool run ends.         *)

WorkStages(offer) ==
    CASE IsLinked(offer)        -> <<>>
      [] offer.work = "Merge"   -> <<"merging">>
      [] OTHER                  -> <<"converting">>

ReportedStages(offer) ==
    <<"analyzing", "downloading">> \o WorkStages(offer) \o <<"finalizing">>

(* A stage that may not follow the one before it is suppressed.              *)
NothingSuppressed(stages) ==
    \A i \in DOMAIN stages :
        stages[i] \in NextStages(IF i = 1 THEN "none" ELSE stages[i - 1])

(* A tool's output must be whole and readable before its status counts.      *)
OutputFault(output) == FirstFault(<<
    Check(output.truncated, "protocol"),
    Check(~output.readable, "protocol"),
    Check(~output.success,  "non-zero")>>)
=============================================================================
