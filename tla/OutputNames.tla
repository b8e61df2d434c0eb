------------------------------ MODULE OutputNames ------------------------------
(* The names an attempt gives its files (download/name.rs and the paths of   *)
(* download/service.rs).  A text is a sequence of characters; a character    *)
(* stands for its kind: "/" for every character a name may not have, "." and *)
(* " " for themselves, a capital or small letter, "w" for a wide one.        *)
EXTENDS Integers, Sequences, FiniteSets, SequencesExt, TLC

CONSTANTS
    MaxChars,    \* MAX_STEM_CHARS
    MaxBytes,    \* MAX_STEM_BYTES
    WideBytes,   \* what a wide character takes
    Devices,     \* the Windows device names, in capitals
    MaxToken,    \* how much of a format identity goes into a file name
    MaxContainer,\* how much of a container name
    Substitute,  \* the name of an output that has none left: "media"
    Mark         \* what is put before a device name: "_"

Space == " "

Capital(c) == CASE c = "a" -> "A" [] c = "m" -> "M" [] c = "n" -> "N" [] OTHER -> c
Capitals(text) == [i \in DOMAIN text |-> Capital(text[i])]

Letters(text) == \A i \in DOMAIN text : text[i] \notin {"/", Space, ".", "w"}

(* The substitute fits, and what is put before a name makes none a device.   *)
ASSUME NamesAssumption ==
    /\ MaxChars \in Nat /\ MaxBytes \in Nat /\ WideBytes \in Nat \ {0}
    /\ MaxToken \in Nat /\ MaxContainer \in Nat
    /\ Substitute \in Seq(STRING) \ {<<>>} /\ Letters(Substitute)
    /\ Len(Substitute) <= MaxChars /\ Len(Substitute) <= MaxBytes
    /\ Mark \in Seq(STRING) \ {<<>>} /\ Letters(Mark)
    /\ \A device \in Devices : device # <<>> /\ device[1] # Capital(Mark[1])

Wide(text)  == {i \in DOMAIN text : text[i] = "w"}
Bytes(text) == Len(text) + (WideBytes - 1) * Cardinality(Wide(text))

(* The extension the user already wrote is taken off once.                   *)
StripExtension(name, extension) ==
    LET rest == Len(name) - Len(extension) - 1
    IN  IF rest >= 0 /\ Capitals(SubSeq(name, rest + 1, Len(name))) = Capitals(<<".">> \o extension)
        THEN SubSeq(name, 1, rest) ELSE name

(* Characters that may not be in a name separate its words like spaces do.   *)
IsGap(c) == c \in {"/", Space}

(* One character of the name: it stops growing at the first that is too much.*)
TakeCharacter(sofar, c) ==
    LET text == IF sofar.gap THEN Append(sofar.text, Space) ELSE sofar.text
    IN  IF sofar.full THEN sofar
        ELSE IF IsGap(c) THEN [sofar EXCEPT !.gap = sofar.text # <<>>]
        ELSE IF Len(text) >= MaxChars \/ Bytes(text) + Bytes(<<c>>) > MaxBytes
        THEN [text |-> text, gap |-> FALSE, full |-> TRUE]
        ELSE [text |-> Append(text, c), gap |-> FALSE, full |-> FALSE]

(* The name after so many characters of the input.                           *)
Collapsed(input) ==
    LET taken[n \in 0..Len(input)] ==
            IF n = 0 THEN [text |-> <<>>, gap |-> FALSE, full |-> FALSE]
            ELSE TakeCharacter(taken[n - 1], input[n])
    IN  taken

TrimEnd(text, kinds) ==
    LET kept == {i \in DOMAIN text : text[i] \notin kinds}
    IN  IF kept = {} THEN <<>> ELSE SubSeq(text, 1, CHOOSE i \in kept : \A j \in kept : j <= i)

(* The part before the first dot, whatever its case, decides.                *)
IsDeviceName(text) ==
    LET dots  == {i \in DOMAIN text : text[i] = "."}
        first == IF dots = {} THEN text
                 ELSE SubSeq(text, 1, (CHOOSE i \in dots : \A j \in dots : i <= j) - 1)
    IN  Capitals(TrimEnd(first, {Space, "."})) \in Devices

(* A device name is not left as it is.                                       *)
Portable(text) == IF IsDeviceName(text) THEN Mark \o text ELSE text

(* Mutant of Sanitize: the end is trimmed before the name is cut.            *)
SanitizeTrimFirst(input) ==
    LET trimmed == TrimEnd(input, {Space, "."})
        text    == Collapsed(trimmed)[Len(trimmed)].text
    IN  Portable(IF text = <<>> THEN Substitute ELSE text)

Sanitize(input) ==
    LET text == TrimEnd(Collapsed(input)[Len(input)].text, {Space, "."})
    IN  Portable(IF text = <<>> THEN Substitute ELSE text)

(* The stem of the output, from the title or the name that was asked for.    *)
Stem(name, extension) == Sanitize(StripExtension(name, extension))

-----------------------------------------------------------------------------
(* The files of a job in the destination.  A name is a sequence of parts;    *)
(* the identity of a job holds no character that parts are joined with.      *)

OutputName(stem, collision, extension) ==
    stem \o (IF collision = 0 THEN <<>> ELSE <<Space, "(", ToString(collision), ")">>) \o <<".">> \o extension
LockName(stem, collision, extension) ==
    <<".">> \o OutputName(stem, collision, extension) \o <<"yt-media-reserve">>

(* Letters and digits stay, the rest of an identity is left out.             *)
Token(text, limit, otherwise) ==
    LET kept[n \in 0..Len(text)] ==
            IF n = 0 THEN <<>>
            ELSE IF text[n] \in {".", Space, "/", "w"} THEN kept[n - 1]
            ELSE Append(kept[n - 1], text[n])
        whole == kept[Len(text)]
    IN  IF whole = <<>> THEN otherwise
        ELSE SubSeq(whole, 1, IF Len(whole) < limit THEN Len(whole) ELSE limit)

SourceName(job, index, format, container) ==
    <<"yt-media", job, "source", ToString(index)>> \o Token(format, MaxToken, <<"format">>)
    \o <<".">> \o Token(container, MaxContainer, Substitute)
WorkName(job, extension) == <<"yt-media", job, "work", ".">> \o extension
OwnerName(job)           == <<"yt-media", job, "owner.json">>

(* What one attempt writes: its sources, its work file, its owner manifest.  *)
AttemptNames(job, formats, containers, extension) ==
    [i \in DOMAIN formats |-> SourceName(job, i, formats[i], containers[i])]
    \o <<WorkName(job, extension), OwnerName(job)>>
=============================================================================
