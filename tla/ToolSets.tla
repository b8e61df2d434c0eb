------------------------------- MODULE ToolSets -------------------------------
(* The sets of external tools and the choice among them (resolver.rs,        *)
(* manifest.rs, tool.rs, path.rs and the composition in the desktop service).*)
(* A disk maps the files of one root to what they are.  A path has a text    *)
(* (raw), the text compared without case (key), the file it leads to (file,  *)
(* the tuple of its parts) and whether it stays below its root (safe); two   *)
(* texts may name one file.                                                  *)
EXTENDS Integers, Sequences, FiniteSets, Checks, TLC

CONSTANTS
    AllTools,    \* Tool::ALL, in order
    Baseline,    \* the version each tool is pinned to
    Target,      \* the target this program was built for
    MaxReceipt,  \* MAX_BUILD_RECEIPT_BYTES
    MaxInventory \* MAX_STAGED_CHECKSUM_BYTES

ASSUME ToolsAssumption ==
    /\ AllTools \in Seq(STRING)
    /\ \A i, j \in DOMAIN AllTools : AllTools[i] = AllTools[j] => i = j

ToolNames == {AllTools[i] : i \in DOMAIN AllTools}
Schema    == 1

(* What is found at a place: nothing, or a file that is a program saying who *)
(* it is, a document, or neither.                                            *)
NoFile == [digest |-> "none", size |-> 0, inside |-> FALSE, executable |-> FALSE,
           runs |-> FALSE, says |-> "nothing", version |-> "none", document |-> <<>>]
FileAt(disk, file) == IF file \in DOMAIN disk THEN disk[file] ELSE NoFile

DigestFails(digest) == digest \in {"malformed", "missing"}

(* The probe runs the tool and reads its name and version from what it says. *)
ProbeFails(tool, version, file) ==
    ~(file.runs /\ file.says = tool /\ file.version = version)

(* A path that leaves the root, is no file or cannot be executed.            *)
PlaceFault(file) == FirstFault(<<
    Check(file = NoFile,        "missing"),
    Check(~file.inside,         "escapes"),
    Check(~file.executable,     "not executable")>>)

(* One expected executable [tool, version, file, size, digest].              *)
EntryFault(disk, entry) ==
    LET file == FileAt(disk, entry.file)
    IN  FirstFault(<<
            Check(file = NoFile,                "missing"),
            Check(~file.inside,                 "escapes"),
            Check(file.size # entry.size,       "size"),
            Check(file.digest # entry.digest,   "digest"),
            Check(PlaceFault(file) # "none",    "not executable"),
            Check(ProbeFails(entry.tool, entry.version, file), "probe")>>)

VerifiedSet(target, paths) == [fault |-> "none", target |-> target, paths |-> paths]
Refused(fault) == [fault |-> fault, target |-> "none", paths |-> <<>>]

ByTool(entries) ==
    [t \in {entries[i].tool : i \in DOMAIN entries} |->
        (CHOOSE i \in DOMAIN entries : entries[i].tool = t)]
PathsOf(entries) == [t \in DOMAIN ByTool(entries) |-> entries[ByTool(entries)[t]].file]

Repeated(entries) ==
    \E i, j \in DOMAIN entries : i < j /\ entries[i].tool = entries[j].tool

(* An entry of a tool that was seen before is not looked at.                 *)
EntriesFault(disk, entries) ==
    FirstFaultOf([i \in DOMAIN entries |-> i],
                 LAMBDA i : IF \E j \in 1..i - 1 : entries[j].tool = entries[i].tool
                            THEN "duplicate" ELSE EntryFault(disk, entries[i]))

(* Mutant of VerifyEntries: the inventory need not be complete.              *)
VerifyEntriesPartial(target, disk, entries) ==
    LET fault == EntriesFault(disk, entries)
    IN  IF fault # "none" THEN Refused(fault) ELSE VerifiedSet(target, PathsOf(entries))

(* The inventory of a managed update: each entry in turn, no tool twice,     *)
(* none missing.                                                             *)
VerifyEntries(target, disk, entries) ==
    LET fault == EntriesFault(disk, entries)
    IN  CASE fault # "none" -> Refused(fault)
          [] DOMAIN ByTool(entries) # ToolNames -> Refused("incomplete")
          [] OTHER -> VerifiedSet(target, PathsOf(entries))

-----------------------------------------------------------------------------
(* A directory with a checksum inventory: lines of a digest and a name.      *)

InventoryFault(document, size) == FirstFault(<<
    Check(size > MaxInventory, "too large"),
    Check(\E i \in DOMAIN document :
              DigestFails(document[i].digest) \/ document[i].name = "malformed", "inventory"),
    Check(\E i, j \in DOMAIN document : i < j /\ document[i].name = document[j].name, "inventory"),
    Check(Len(document) # Len(AllTools), "inventory")>>)

DigestOf(document, name) == document[CHOOSE i \in DOMAIN document : document[i].name = name].digest

(* The staged name of a tool carries its target; beside the application it   *)
(* has the plain name.  The size is whatever the file has.                   *)
StagedName(tool, target) == <<tool, target>>

InventoryEntries(disk, document, target, File(_)) ==
    [i \in DOMAIN AllTools |->
        LET tool == AllTools[i]
        IN  [tool |-> tool, version |-> Baseline[tool], file |-> File(tool),
             size |-> FileAt(disk, File(tool)).size,
             digest |-> DigestOf(document, StagedName(tool, target))]]

VerifyInventory(target, disk, inventory, File(_)) ==
    LET names == {inventory.document[i].name : i \in DOMAIN inventory.document}
    IN  CASE inventory = NoFile -> Refused("missing")
          [] InventoryFault(inventory.document, inventory.size) # "none" ->
                Refused(InventoryFault(inventory.document, inventory.size))
          [] \E t \in ToolNames : StagedName(t, target) \notin names -> Refused("staged tool")
          [] OTHER -> VerifyEntries(target, disk,
                          InventoryEntries(disk, inventory.document, target, File))

VerifyStaged(target, disk) ==
    VerifyInventory(target, disk, FileAt(disk, <<"SHA256SUMS">>),
                    LAMBDA t : StagedName(t, target))

(* Outside macOS, where the signature of the bundle is checked instead.      *)
VerifyExternal(target, disk, inventory) ==
    VerifyInventory(target, disk, inventory, LAMBDA t : <<t>>)

-----------------------------------------------------------------------------
(* The pinned manifest of the bundled tools and the receipt of a native build.*)

SourceFault(source) == FirstFault(<<
    Check(source.scheme # "https",     "insecure source"),
    Check(source.ref = "blank",        "source ref"),
    Check(~source.path.safe,           "source path"),
    Check(DigestFails(source.digest),  "source digest"),
    Check(source.size = 0,             "source size")>>)

ProvenanceFault(provenance) == FirstFault(<<
    Check(provenance.scheme # "https",   "repository"),
    Check(provenance.license = "blank",  "license"),
    Check(~provenance.definition.safe,   "build path"),
    Check(FirstFaultOf(provenance.inputs, SourceFault) # "none",
          FirstFaultOf(provenance.inputs, SourceFault))>>)

(* A digest is pinned for what is downloaded and never for what is built.    *)
ExecutableFault(kind, executable) == FirstFault(<<
    Check(~executable.path.safe, "executable path"),
    Check(kind = "upstream" /\ DigestFails(executable.digest), "executable digest"),
    Check(kind = "upstream" /\ executable.size = 0, "executable size"),
    Check(kind = "native" /\ (executable.digest # "missing" \/ executable.size # 0),
          "digest of a build")>>)

SameKey(executables) ==
    \E i, j \in DOMAIN executables :
        i < j /\ executables[i].path.key = executables[j].path.key

ToolFault(record) == FirstFault(<<
    Check(record.version # Baseline[record.tool], "version"),
    Check(SourceFault(record.source) # "none", SourceFault(record.source)),
    Check(record.executables = <<>>, "no executable"),
    Check(FirstFaultOf(record.executables, LAMBDA e : ExecutableFault(record.kind, e)) # "none",
          "executable"),
    Check(SameKey(record.executables), "duplicate path"),
    Check(record.kind = "native" /\ ~record.receipt.safe, "receipt path"),
    Check(ProvenanceFault(record.provenance) # "none", ProvenanceFault(record.provenance))>>)

TargetFault(manifest) == FirstFault(<<
    Check(FirstFaultOf(manifest.tools, ToolFault) # "none",
          FirstFaultOf(manifest.tools, ToolFault)),
    Check(Repeated(manifest.tools), "duplicate tool"),
    Check(SameKey(FlattenSeq([i \in DOMAIN manifest.tools |-> manifest.tools[i].executables])),
          "duplicate path"),
    Check({manifest.tools[i].tool : i \in DOMAIN manifest.tools} # ToolNames, "missing tool")>>)

ReceiptFault(receipt, target, ref) == FirstFault(<<
    Check(receipt.schema # Schema, "receipt schema"),
    Check(receipt.target # target, "receipt target"),
    Check(receipt.ref # ref,       "receipt source"),
    Check(receipt.configuration = <<>> \/ "blank" \in Range(receipt.configuration),
          "build configuration"),
    Check(\E i \in DOMAIN receipt.executables :
              receipt.executables[i].tool \notin {"ffmpeg", "ffprobe"}, "receipt tool"),
    Check(Repeated(receipt.executables), "receipt tool"),
    Check(\E i \in DOMAIN receipt.executables :
              LET e == receipt.executables[i]
              IN  ~e.path.safe \/ DigestFails(e.digest) \/ e.size = 0, "receipt executable"),
    Check(SameKey(receipt.executables), "receipt path"),
    Check({receipt.executables[i].tool : i \in DOMAIN receipt.executables}
              # {"ffmpeg", "ffprobe"}, "receipt incomplete")>>)

(* What one tool must be.  The receipt of a build is read once: for the      *)
(* first tool that names it, whose source it must have been built from.      *)
ExpectedEntry(disk, manifest, record) ==
    LET first    == record.executables[1]
        shared   == FirstWith(manifest.tools, LAMBDA r : r.kind = "native"
                                                         /\ r.receipt.raw = record.receipt.raw)
        place    == FileAt(disk, record.receipt.file)
        receipt  == place.document
        built    == FirstWith(receipt.executables, LAMBDA e : e.tool = record.tool)
        fault    ==
            CASE Len(record.executables) # 1       -> "executable count"
              [] record.kind = "upstream"          -> "none"
              [] place = NoFile \/ ~place.inside   -> "receipt missing"
              [] place.size > MaxReceipt           -> "receipt too large"
              [] receipt = <<>>                    -> "receipt not JSON"
              [] ReceiptFault(receipt, manifest.target, shared.source.ref) # "none" -> "receipt"
              [] \A i \in DOMAIN receipt.executables : receipt.executables[i].tool # record.tool ->
                    "receipt lacks the tool"
              [] built.path.raw # first.path.raw -> "receipt path"
              [] OTHER -> "none"
        found    == IF record.kind = "upstream" THEN first ELSE built
    IN  IF fault # "none" THEN [fault |-> fault]
        ELSE [fault |-> "none", tool |-> record.tool, version |-> record.version,
              file |-> found.path.file, size |-> found.size, digest |-> found.digest]

VerifyManifest(disk, manifest) ==
    LET expected == [i \in DOMAIN manifest.tools |-> ExpectedEntry(disk, manifest, manifest.tools[i])]
        fault    == FirstFaultOf(expected, LAMBDA e : IF e.fault # "none" THEN e.fault
                                                      ELSE EntryFault(disk, e))
    IN  IF fault # "none" THEN Refused(fault) ELSE VerifiedSet(manifest.target, PathsOf(expected))

-----------------------------------------------------------------------------
(* The choice of one tool.                                                   *)

Resolved(tool, tier, file) == [fault |-> "none", tool |-> tool, tier |-> tier, file |-> file]
Unresolved(fault)          == [fault |-> fault, tier |-> "none"]

(* A tool outside the verified sets is only probed, for the pinned version.  *)
ResolveUnverified(tool, tier, file) ==
    CASE file = NoFile \/ ~file.executable -> Unresolved("candidate")
      [] ProbeFails(tool, Baseline[tool], file) -> Unresolved("probe")
      [] OTHER -> Resolved(tool, tier, file)

Has(set, tool)  == set.fault = "none" /\ tool \in DOMAIN set.paths
Strays(set)     == set.fault = "none" /\ set.target # Target

(* Override, managed update, bundled baseline, and the search path only for  *)
(* developers.  What is chosen and fails has no replacement.                 *)
Resolve(tool, target, config) ==
    LET Holds(directory) == tool \in DOMAIN directory
    IN  IF target # Target THEN Unresolved("target")
        ELSE IF tool \in DOMAIN config.overrides
        THEN ResolveUnverified(tool, "override", config.overrides[tool])
        ELSE IF Strays(config.managed) THEN Unresolved("managed target")
        ELSE IF Has(config.managed, tool)
        THEN Resolved(tool, "managed", FileAt(config.managedDisk, config.managed.paths[tool]))
        ELSE IF Strays(config.bundled) THEN Unresolved("bundled target")
        ELSE IF Has(config.bundled, tool)
        THEN Resolved(tool, "bundled", FileAt(config.bundledDisk, config.bundled.paths[tool]))
        ELSE IF config.development /\ \E i \in DOMAIN config.search : Holds(config.search[i])
        THEN ResolveUnverified(tool, "path", FirstWith(config.search, Holds)[tool])
        ELSE Unresolved("not found")

(* The desktop starts with all the tools or with none of them; a set that    *)
(* does not verify is left out.                                              *)
ResolveTools(config) ==
    LET all == [i \in DOMAIN AllTools |-> Resolve(AllTools[i], Target, config)]
    IN  IF FirstFaultOf(all, LAMBDA r : r.fault) = "none" THEN all ELSE <<>>

OptionalBundled(target, disk, inventory) ==
    IF inventory # NoFile THEN VerifyExternal(target, disk, inventory) ELSE VerifyStaged(target, disk)
=============================================================================
