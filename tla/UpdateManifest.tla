---------------------------- MODULE UpdateManifest ----------------------------
(* A signed update from its manifest to a verified set on disk (update.rs).  *)
(* The file of a path is the sequence of its components, so that one file    *)
(* may be the directory another one needs.                                   *)
EXTENDS ToolSets

CONSTANTS
    MaxArchive,     \* MAX_UPDATE_ARCHIVE_BYTES
    AppVersion,     \* the version of this application
    ReservedFiles   \* the manifest and the signature, kept beside the tools

ASSUME UpdateAssumption == AppVersion \in Nat

NotAVersion == -1

(* Bytes that are too long, not JSON, not canonical, or not signed with the  *)
(* key of the application; what is inside is looked at only after that.      *)
SealFault(update) == FirstFault(<<
    Check(update.seal = "too large",     "too large"),
    Check(update.seal = "not json",      "json"),
    Check(update.seal = "not canonical", "canonical"),
    Check(update.seal = "other key",     "signature"),
    Check(update.seal = "other shape",   "json")>>)

ArchiveFault(archive) == FirstFault(<<
    Check(archive.url # "release asset",  "url"),
    Check(~archive.filename.safe,         "filename"),
    Check(Len(archive.filename.file) # 1, "filename"),
    Check(archive.size \notin 1..MaxArchive, "archive size"),
    Check(DigestFails(archive.digest),    "archive digest")>>)

UpdateToolFault(record) == FirstFault(<<
    Check(record.version = "blank",         "tool version"),
    Check(~record.path.safe,                "path"),
    Check(record.size \notin 1..MaxArchive, "tool size"),
    Check(DigestFails(record.digest),       "tool digest")>>)

ManifestFault(manifest, target) == FirstFault(<<
    Check(manifest.schema # Schema,         "schema"),
    Check(manifest.target # target,         "target"),
    Check(manifest.channel = "malformed",   "channel"),
    Check(NotAVersion \in {manifest.release, manifest.minimum}, "version"),
    Check(AppVersion < manifest.minimum,    "application too old"),
    Check(manifest.release < manifest.minimum, "release before minimum"),
    Check(manifest.created # "utc",         "creation time"),
    Check(ArchiveFault(manifest.archive) # "none", ArchiveFault(manifest.archive)),
    Check(FirstFaultOf(manifest.tools, UpdateToolFault) # "none",
          FirstFaultOf(manifest.tools, UpdateToolFault)),
    Check(Repeated(manifest.tools), "duplicate tool"),
    Check(\E i, j \in DOMAIN manifest.tools :
              i < j /\ manifest.tools[i].path.key = manifest.tools[j].path.key, "duplicate path"),
    Check({manifest.tools[i].tool : i \in DOMAIN manifest.tools} # ToolNames, "incomplete")>>)

VerificationEntries(manifest) ==
    [i \in DOMAIN manifest.tools |->
        LET record == manifest.tools[i]
        IN  [tool |-> record.tool, version |-> record.version, file |-> record.path.file,
             size |-> record.size, digest |-> record.digest]]

-----------------------------------------------------------------------------
(* The archive is unpacked into an empty directory.                          *)

ArchiveFileFault(package, archive) == FirstFault(<<
    Check(~package.exists,                  "archive missing"),
    Check(package.size # archive.size,      "archive size"),
    Check(package.digest # archive.digest,  "archive digest")>>)

IsBelow(file, other) == Len(other) < Len(file) /\ SubSeq(file, 1, Len(other)) = other
(* A file cannot be made where one is, below one, or where a directory is.   *)
Blocked(disk, file) ==
    \E other \in DOMAIN disk : other = file \/ IsBelow(file, other) \/ IsBelow(other, file)

With(disk, place, file) ==
    [f \in DOMAIN disk \union {place} |-> IF f = place THEN file ELSE disk[f]]

IsExpected(tools, path) == \E i \in DOMAIN tools : tools[i].path.raw = path.raw
Expected(tools, path)   == FirstWith(tools, LAMBDA t : t.path.raw = path.raw)

ZipEntryFault(sofar, entry, tools) ==
    LET expected == Expected(tools, entry.path)
    IN  CASE entry.kind # "file"          -> "unexpected entry"
          [] ~entry.path.safe             -> "unsafe path"
          [] ~IsExpected(tools, entry.path) -> "unexpected entry"
          [] entry.path.raw \in sofar.extracted -> "duplicate path"
          [] entry.size # expected.size -> "size"
          [] sofar.total + entry.size > MaxArchive -> "expanded size"
          [] Blocked(sofar.disk, entry.path.file) -> "create"
          [] entry.digest # expected.digest -> "digest"
          [] OTHER -> "none"

(* Mutant of TakeEntry: an extracted file is written over.                   *)
TakeEntryOver(sofar, entry, tools) ==
    LET fault == ZipEntryFault([sofar EXCEPT !.disk = <<>>], entry, tools)
        file  == [entry.content EXCEPT !.size = entry.size, !.digest = entry.digest,
                                       !.inside = TRUE, !.executable = TRUE]
    IN  IF sofar.fault # "none" THEN sofar
        ELSE IF fault # "none" THEN [sofar EXCEPT !.fault = fault]
        ELSE [sofar EXCEPT !.extracted = @ \union {entry.path.raw}, !.total = @ + entry.size,
                           !.disk = With(@, entry.path.file, file)]

TakeEntry(sofar, entry, tools) ==
    LET fault == ZipEntryFault(sofar, entry, tools)
        file  == [entry.content EXCEPT !.size = entry.size, !.digest = entry.digest,
                                       !.inside = TRUE, !.executable = TRUE]
    IN  IF sofar.fault # "none" THEN sofar
        ELSE IF fault # "none" THEN [sofar EXCEPT !.fault = fault]
        ELSE [sofar EXCEPT !.extracted = @ \union {entry.path.raw}, !.total = @ + entry.size,
                           !.disk = With(@, entry.path.file, file)]

(* What has been unpacked after so many entries.                             *)
Taken(entries, tools) ==
    LET taken[n \in 0..Len(entries)] ==
            IF n = 0 THEN [fault |-> "none", extracted |-> {}, total |-> 0, disk |-> <<>>]
            ELSE TakeEntry(taken[n - 1], entries[n], tools)
    IN  taken

Extract(package, tools) ==
    LET taken == Taken(package.entries, tools)[Len(package.entries)]
    IN  IF taken.fault = "none" /\ Cardinality(taken.extracted)
                                   # Cardinality({tools[i].path.raw : i \in DOMAIN tools})
        THEN [taken EXCEPT !.fault = "incomplete archive"] ELSE taken

(* The manifest and its signature are written beside what was unpacked.      *)
Stage(package, manifest) ==
    LET file     == ArchiveFileFault(package, manifest.archive)
        unpacked == Extract(package, manifest.tools)
    IN  CASE file # "none"            -> [fault |-> file, disk |-> <<>>]
          [] unpacked.fault # "none"  -> [fault |-> unpacked.fault, disk |-> <<>>]
          [] \E f \in ReservedFiles : Blocked(unpacked.disk, f) ->
                [fault |-> "write manifest", disk |-> unpacked.disk]
          [] OTHER -> [fault |-> "none", disk |-> unpacked.disk]

(* What the staged tools can do is probed together.                          *)
CapabilityFault(abilities) == FirstFault(<<
    Check(~ {"libx264", "aac", "libmp3lame"} \subseteq abilities.encoders, "encoder"),
    Check("mp4" \notin abilities.muxers, "muxer"),
    Check(~abilities.javascript,         "javascript"),
    Check(~abilities.pairing,            "pairing")>>)

(* Everything an install checks before it touches the active set.            *)
InstallFault(update, target) ==
    LET manifest == update.manifest
        staged   == Stage(update.package, manifest)
        set      == VerifyEntries(target, staged.disk, VerificationEntries(manifest))
    IN  CASE SealFault(update) # "none"               -> SealFault(update)
          [] ManifestFault(manifest, target) # "none" -> ManifestFault(manifest, target)
          [] staged.fault # "none"                    -> staged.fault
          [] set.fault # "none"                       -> set.fault
          [] OTHER                                    -> CapabilityFault(update.abilities)
=============================================================================
