---------------------------- MODULE DecisionProofs ----------------------------
(* What the decisions taken from data alone compute, for inputs of any       *)
(* length: the choice of the tools, the acceptance of an update, the names   *)
(* of outputs, the outputs that are offered and the progress that is shown.  *)
EXTENDS MCDecisions, FiniteSetTheorems, SequenceTheorems, TLAPS

-----------------------------------------------------------------------------
(* Induction.  The theorems of the library that state it take an operator;   *)
(* these take a set.                                                         *)

(* A set of natural numbers has a least element: the intervals up to its     *)
(* elements are finite sets, and strict inclusion is well founded on those.  *)
LEMMA Least ==
  ASSUME NEW S \in SUBSET Nat, S # {}
  PROVE  \E m \in S : \A n \in S : m <= n
<1> DEFINE R == StrictSubsetOrdering(Nat)
           T == {U \in FiniteSubsetsOf(Nat) : \E n \in S : U = 0 .. n}
<1>1. IsWellFoundedOn(R, FiniteSubsetsOf(Nat))
  BY FS_StrictSubsetOrderingWellFounded
<1>2. \A n \in S : 0 .. n \in T
  <2> TAKE n \in S
  <2>1. n \in Int /\ 0 \in Int /\ 0 .. n \subseteq Nat
    OBVIOUS
  <2>2. IsFiniteSet(0 .. n)
    BY <2>1, FS_Interval
  <2> QED
    BY <2>1, <2>2 DEF FiniteSubsetsOf
<1>3. T # {} /\ T \subseteq FiniteSubsetsOf(Nat)
  BY <1>2
<1> HIDE DEF T, R
<1>4. PICK U \in T : \A V \in T : <<V, U>> \notin R
  BY <1>1, <1>3, WFMin
<1>5. PICK m \in S : U = 0 .. m
  BY DEF T
<1>6. ASSUME NEW n \in S, n < m PROVE FALSE
  <2>1. 0 .. n \in T
    BY <1>2
  <2>2. 0 .. n \subseteq Nat /\ 0 .. m \subseteq Nat /\ 0 .. n \subseteq 0 .. m /\ m \notin 0 .. n /\ m \in 0 .. m
    BY <1>6
  <2>3. <<0 .. n, U>> \in R
    BY <2>2, <1>5 DEF R, StrictSubsetOrdering
  <2> QED
    BY <2>1, <2>3, <1>4
<1> QED
  BY <1>6

(* A set with 0 and the successor of each of its numbers has them all.       *)
LEMMA NatInductionOn ==
  ASSUME NEW S, 0 \in S, \A n \in Nat : n \in S => n + 1 \in S
  PROVE  Nat \subseteq S
<1> SUFFICES ASSUME Nat \ S # {} PROVE FALSE
  OBVIOUS
<1>1. PICK m \in Nat \ S : \A n \in Nat \ S : m <= n
  BY Least
<1>2. m # 0 /\ m - 1 \in Nat /\ m - 1 \in S
  BY <1>1
<1>3. (m - 1) + 1 = m
  OBVIOUS
<1> QED
  BY <1>2, <1>3

LEMMA MinIsFirst ==
  ASSUME NEW S \in SUBSET Nat, S # {}
  PROVE  Min(S) \in S /\ \A n \in S : Min(S) <= n
<1>1. \E m \in S : \A n \in S : m <= n
  BY Least
<1> QED
  BY <1>1 DEF Min

-----------------------------------------------------------------------------
(* Validations.                                                              *)

(* A list of checks succeeds exactly when none of them fails.                *)
LEMMA NoFault ==
  ASSUME NEW n \in Nat, NEW checks, DOMAIN checks = 1 .. n,
         \A i \in 1 .. n : checks[i].fails => checks[i].fault # "none"
  PROVE  FirstFault(checks) = "none" <=> \A i \in 1 .. n : ~checks[i].fails
<1> DEFINE failed == {i \in DOMAIN checks : checks[i].fails}
<1>1. failed \in SUBSET Nat
  OBVIOUS
<1>2. failed # {} => Min(failed) \in failed
  BY <1>1, MinIsFirst
<1> QED
  BY <1>2 DEF FirstFault


LEMMA ThreeChecks ==
  ASSUME NEW a, NEW b, NEW c, a.fault # "none", b.fault # "none", c.fault # "none"
  PROVE  FirstFault(<<a, b, c>>) = "none" <=> ~a.fails /\ ~b.fails /\ ~c.fails
<1> DEFINE checks == <<a, b, c>>
<1>1. DOMAIN checks = 1 .. 3 /\ checks[1] = a /\ checks[2] = b /\ checks[3] = c
  OBVIOUS
<1> HIDE DEF checks
<1>2. \A i \in 1 .. 3 : checks[i] = a \/ checks[i] = b \/ checks[i] = c
  BY <1>1
<1>3. \A i \in 1 .. 3 : checks[i].fault # "none"
  BY <1>2
<1>4. FirstFault(checks) = "none" <=> \A i \in 1 .. 3 : ~checks[i].fails
  BY <1>1, <1>3, NoFault
<1>5. 1 \in 1 .. 3 /\ 2 \in 1 .. 3 /\ 3 \in 1 .. 3
  OBVIOUS
<1>6. (\A i \in 1 .. 3 : ~checks[i].fails) <=> ~a.fails /\ ~b.fails /\ ~c.fails
  BY <1>1, <1>2, <1>5, Zenon
<1> QED
  BY <1>4, <1>6 DEF checks

LEMMA SixChecks ==
  ASSUME NEW a, NEW b, NEW c, NEW d, NEW e, NEW f,
         a.fault # "none", b.fault # "none", c.fault # "none",
         d.fault # "none", e.fault # "none", f.fault # "none"
  PROVE  FirstFault(<<a, b, c, d, e, f>>) = "none" <=>
            ~a.fails /\ ~b.fails /\ ~c.fails /\ ~d.fails /\ ~e.fails /\ ~f.fails
<1> DEFINE checks == <<a, b, c, d, e, f>>
<1>1. /\ DOMAIN checks = 1 .. 6 /\ checks[1] = a /\ checks[2] = b /\ checks[3] = c
      /\ checks[4] = d /\ checks[5] = e /\ checks[6] = f
  OBVIOUS
<1> HIDE DEF checks
<1>2. \A i \in 1 .. 6 : \/ checks[i] = a \/ checks[i] = b \/ checks[i] = c
                         \/ checks[i] = d \/ checks[i] = e \/ checks[i] = f
  BY <1>1
<1>3. \A i \in 1 .. 6 : checks[i].fault # "none"
  BY <1>2
<1>4. FirstFault(checks) = "none" <=> \A i \in 1 .. 6 : ~checks[i].fails
  BY <1>1, <1>3, NoFault
<1>5. {1, 2, 3, 4, 5, 6} \subseteq 1 .. 6
  OBVIOUS
<1>6. (\A i \in 1 .. 6 : ~checks[i].fails) <=>
            ~a.fails /\ ~b.fails /\ ~c.fails /\ ~d.fails /\ ~e.fails /\ ~f.fails
  BY <1>1, <1>2, <1>5, Zenon
<1> QED
  BY <1>4, <1>6 DEF checks

-----------------------------------------------------------------------------
(* Tool sets.                                                                *)

(* An expected executable is there.                                          *)
EntryIs(disk, entry) ==
    LET file == FileAt(disk, entry.file)
    IN  /\ file # NoFile /\ file.inside /\ file.executable
        /\ file.size = entry.size /\ file.digest = entry.digest
        /\ file.runs /\ file.says = entry.tool /\ file.version = entry.version

LEMMA PlaceHolds ==
  ASSUME NEW file
  PROVE  PlaceFault(file) = "none" <=> file # NoFile /\ file.inside /\ file.executable
<1> DEFINE a == Check(file = NoFile, "missing")
           b == Check(~file.inside, "escapes")
           c == Check(~file.executable, "not executable")
<1>1. PlaceFault(file) = FirstFault(<<a, b, c>>)
  BY DEF PlaceFault
<1>2. a.fault # "none" /\ b.fault # "none" /\ c.fault # "none"
  BY DEF Check
<1>3. /\ a.fails <=> file = NoFile
      /\ b.fails <=> ~file.inside
      /\ c.fails <=> ~file.executable
  BY DEF Check
<1> HIDE DEF a, b, c
<1> QED
  BY <1>1, <1>2, <1>3, ThreeChecks, Zenon

LEMMA EntryHolds ==
  ASSUME NEW disk, NEW entry
  PROVE  EntryFault(disk, entry) = "none" <=> EntryIs(disk, entry)
<1> DEFINE file == FileAt(disk, entry.file)
           a == Check(file = NoFile, "missing")
           b == Check(~file.inside, "escapes")
           c == Check(file.size # entry.size, "size")
           d == Check(file.digest # entry.digest, "digest")
           e == Check(PlaceFault(file) # "none", "not executable")
           f == Check(ProbeFails(entry.tool, entry.version, file), "probe")
<1>1. EntryFault(disk, entry) = FirstFault(<<a, b, c, d, e, f>>)
  BY DEF EntryFault
<1>2. /\ a.fault # "none" /\ b.fault # "none" /\ c.fault # "none"
      /\ d.fault # "none" /\ e.fault # "none" /\ f.fault # "none"
  BY DEF Check
<1>3. /\ a.fails <=> file = NoFile
      /\ b.fails <=> ~file.inside
      /\ c.fails <=> file.size # entry.size
      /\ d.fails <=> file.digest # entry.digest
      /\ e.fails <=> PlaceFault(file) # "none"
      /\ f.fails <=> ~(file.runs /\ file.says = entry.tool /\ file.version = entry.version)
  BY DEF Check, ProbeFails
<1>4. PlaceFault(file) = "none" <=> file # NoFile /\ file.inside /\ file.executable
  BY PlaceHolds
<1>5. EntryIs(disk, entry) <=>
        /\ file # NoFile /\ file.inside /\ file.executable
        /\ file.size = entry.size /\ file.digest = entry.digest
        /\ file.runs /\ file.says = entry.tool /\ file.version = entry.version
  BY DEF EntryIs
<1> HIDE DEF a, b, c, d, e, f, file
<1> QED
  BY <1>1, <1>2, <1>3, <1>4, <1>5, SixChecks, Zenon

(* Entries verify when no tool is there twice and each is what is expected.  *)
LEMMA EntriesHold ==
  ASSUME NEW disk, NEW entries, DOMAIN entries \subseteq Nat
  PROVE  EntriesFault(disk, entries) = "none" <=>
            \A i \in DOMAIN entries :
                /\ ~ \E j \in 1 .. i - 1 : entries[j].tool = entries[i].tool
                /\ EntryIs(disk, entries[i])
<1> DEFINE Seen(i) == \E j \in 1 .. i - 1 : entries[j].tool = entries[i].tool
           Fault(i) == IF Seen(i) THEN "duplicate" ELSE EntryFault(disk, entries[i])
           failed == {i \in DOMAIN entries : Fault(i) # "none"}
<1>1. EntriesFault(disk, entries) = IF failed = {} THEN "none" ELSE Fault(Min(failed))
  BY MinIsFirst DEF EntriesFault, FirstFaultOf
<1>2. failed # {} => Min(failed) \in failed
  BY MinIsFirst
<1>3. \A i \in DOMAIN entries :
        Fault(i) = "none" <=> ~Seen(i) /\ EntryIs(disk, entries[i])
  BY EntryHolds
<1> HIDE DEF Seen, Fault
<1>4. EntriesFault(disk, entries) = "none" <=> \A i \in DOMAIN entries : Fault(i) = "none"
  BY <1>1, <1>2
<1> QED
  BY <1>3, <1>4 DEF Seen

LEMMA RefusedFails == \A fault : fault # "none" => Refused(fault).fault # "none"
BY DEF Refused

(* The first check passed.                                                   *)
LEMMA FirstCheckPassed ==
  ASSUME NEW n \in Nat \ {0}, NEW checks, DOMAIN checks = 1 .. n,
         checks[1].fault # "none", FirstFault(checks) = "none"
  PROVE  ~checks[1].fails
<1> SUFFICES ASSUME checks[1].fails PROVE FALSE
  OBVIOUS
<1> DEFINE failed == {i \in DOMAIN checks : checks[i].fails}
<1>1. failed \in SUBSET Nat /\ 1 \in failed /\ \A i \in failed : 1 <= i
  OBVIOUS
<1>2. Min(failed) \in failed /\ Min(failed) <= 1
  BY <1>1, MinIsFirst
<1>3. Min(failed) = 1
  BY <1>1, <1>2
<1> QED
  BY <1>1, <1>3 DEF FirstFault

LEMMA FourChecks ==
  ASSUME NEW a, NEW b, NEW c, NEW d, a.fails => a.fault # "none", b.fails => b.fault # "none",
         c.fails => c.fault # "none", d.fails => d.fault # "none"
  PROVE  FirstFault(<<a, b, c, d>>) = "none" <=> ~a.fails /\ ~b.fails /\ ~c.fails /\ ~d.fails
<1> DEFINE checks == <<a, b, c, d>>
<1>1. /\ DOMAIN checks = 1 .. 4 /\ checks[1] = a /\ checks[2] = b /\ checks[3] = c
      /\ checks[4] = d
  OBVIOUS
<1> HIDE DEF checks
<1>2. \A i \in 1 .. 4 : checks[i] = a \/ checks[i] = b \/ checks[i] = c \/ checks[i] = d
  BY <1>1
<1>3. \A i \in 1 .. 4 : checks[i].fails => checks[i].fault # "none"
  BY <1>2, Zenon
<1>4. FirstFault(checks) = "none" <=> \A i \in 1 .. 4 : ~checks[i].fails
  BY <1>1, <1>3, NoFault
<1>5. {1, 2, 3, 4} \subseteq 1 .. 4
  OBVIOUS
<1>6. (\A i \in 1 .. 4 : ~checks[i].fails) <=> ~a.fails /\ ~b.fails /\ ~c.fails /\ ~d.fails
  BY <1>1, <1>2, <1>5, Zenon
<1> QED
  BY <1>4, <1>6 DEF checks

LEMMA PathsFollow ==
  ASSUME NEW entries
  PROVE  /\ DOMAIN PathsOf(entries) = {entries[i].tool : i \in DOMAIN entries}
         /\ \A t \in DOMAIN PathsOf(entries) :
              \E i \in DOMAIN entries : /\ entries[i].tool = t
                                        /\ PathsOf(entries)[t] = entries[i].file
<1>1. /\ DOMAIN ByTool(entries) = {entries[i].tool : i \in DOMAIN entries}
      /\ \A t \in DOMAIN ByTool(entries) : /\ ByTool(entries)[t] \in DOMAIN entries
                                           /\ entries[ByTool(entries)[t]].tool = t
  BY DEF ByTool
<1> QED
  BY <1>1 DEF PathsOf

(* A set that is verified has every tool, each as one of its entries says.   *)
LEMMA VerifiedEntries ==
  ASSUME NEW target, NEW disk, NEW entries, DOMAIN entries \subseteq Nat,
         NEW set, set = VerifyEntries(target, disk, entries), set.fault = "none"
  PROVE  /\ DOMAIN set.paths = ToolNames
         /\ \A t \in ToolNames :
              \E i \in DOMAIN entries : /\ entries[i].tool = t /\ set.paths[t] = entries[i].file
                                        /\ EntryIs(disk, entries[i])
<1>1. /\ EntriesFault(disk, entries) = "none" /\ DOMAIN ByTool(entries) = ToolNames
      /\ set.paths = PathsOf(entries)
  <2>1. CASE EntriesFault(disk, entries) # "none"
    BY <2>1 DEF VerifyEntries, Refused
  <2>2. CASE EntriesFault(disk, entries) = "none" /\ DOMAIN ByTool(entries) # ToolNames
    BY <2>2 DEF VerifyEntries, Refused
  <2>3. CASE EntriesFault(disk, entries) = "none" /\ DOMAIN ByTool(entries) = ToolNames
    BY <2>3 DEF VerifyEntries, VerifiedSet
  <2> QED
    BY <2>1, <2>2, <2>3
<1>2. DOMAIN PathsOf(entries) = ToolNames
  BY <1>1 DEF PathsOf
<1>3. \A i \in DOMAIN entries : EntryIs(disk, entries[i])
  BY <1>1, EntriesHold
<1>4. \A t \in ToolNames : \E i \in DOMAIN entries : /\ entries[i].tool = t
                                                     /\ PathsOf(entries)[t] = entries[i].file
  BY <1>2, PathsFollow
<1>5. ASSUME NEW t \in ToolNames
      PROVE  \E i \in DOMAIN entries : /\ entries[i].tool = t /\ set.paths[t] = entries[i].file
                                        /\ EntryIs(disk, entries[i])
  <2>1. PICK i \in DOMAIN entries : entries[i].tool = t /\ PathsOf(entries)[t] = entries[i].file
    BY <1>4
  <2> QED
    BY <1>1, <1>3, <2>1
<1> QED
  BY <1>1, <1>2, <1>5

(* The manifest of the bundled tools names each tool, in its pinned version. *)
LEMMA PinnedManifest ==
  ASSUME NEW manifest, DOMAIN manifest.tools \subseteq Nat, TargetFault(manifest) = "none"
  PROVE  /\ {manifest.tools[i].tool : i \in DOMAIN manifest.tools} = ToolNames
         /\ \A i \in DOMAIN manifest.tools :
              manifest.tools[i].version = Baseline[manifest.tools[i].tool]
<1> DEFINE faulty == {i \in DOMAIN manifest.tools : ToolFault(manifest.tools[i]) # "none"}
           fault == FirstFaultOf(manifest.tools, ToolFault)
           named == {manifest.tools[i].tool : i \in DOMAIN manifest.tools}
           all == FlattenSeq([i \in DOMAIN manifest.tools |-> manifest.tools[i].executables])
           a == Check(fault # "none", fault)
           b == Check(Repeated(manifest.tools), "duplicate tool")
           c == Check(SameKey(all), "duplicate path")
           d == Check(named # ToolNames, "missing tool")
<1>1. fault = IF faulty = {} THEN "none" ELSE ToolFault(manifest.tools[Min(faulty)])
  BY DEF FirstFaultOf
<1>2. faulty # {} => Min(faulty) \in faulty
  BY MinIsFirst
<1>3. fault = "none" => faulty = {}
  BY <1>1, <1>2
<1>4. FirstFault(<<a, b, c, d>>) = "none"
  BY Zenon DEF TargetFault
<1>5. /\ a.fault = fault /\ b.fault # "none" /\ c.fault # "none" /\ d.fault # "none"
      /\ a.fails <=> fault # "none"
      /\ d.fails <=> named # ToolNames
  BY DEF Check
<1>6. fault = "none" /\ named = ToolNames
  <2> HIDE DEF a, b, c, d, fault, named
  <2> QED
    BY <1>4, <1>5, FourChecks, Zenon
<1>7. ASSUME NEW i \in DOMAIN manifest.tools, ToolFault(manifest.tools[i]) = "none"
      PROVE  manifest.tools[i].version = Baseline[manifest.tools[i].tool]
  <2> DEFINE record == manifest.tools[i]
             source == SourceFault(record.source)
             broken == FirstFaultOf(record.executables, LAMBDA e : ExecutableFault(record.kind, e))
             origin == ProvenanceFault(record.provenance)
             checks == << Check(record.version # Baseline[record.tool], "version"),
                          Check(source # "none", source),
                          Check(record.executables = <<>>, "no executable"),
                          Check(broken # "none", "executable"),
                          Check(SameKey(record.executables), "duplicate path"),
                          Check(record.kind = "native" /\ ~record.receipt.safe, "receipt path"),
                          Check(origin # "none", origin) >>
  <2>1. FirstFault(checks) = "none"
    BY <1>7, Zenon DEF ToolFault
  <2> HIDE DEF source, broken, origin
  <2>2. DOMAIN checks = 1 .. 7 /\ checks[1] = Check(record.version # Baseline[record.tool], "version")
    OBVIOUS
  <2> HIDE DEF checks
  <2>3. checks[1].fault # "none"
    BY <2>2 DEF Check
  <2>4. ~checks[1].fails
    <3>1. 7 \in Nat \ {0}
      OBVIOUS
    <3> QED
      BY <3>1, <2>1, <2>2, <2>3, FirstCheckPassed
  <2>5. Check(record.version # Baseline[record.tool], "version").fails
          <=> record.version # Baseline[record.tool]
    BY DEF Check
  <2> QED
    BY <2>2, <2>4, <2>5, Zenon
<1> HIDE DEF fault
<1> QED
  BY <1>3, <1>6, <1>7

LEMMA ExpectedIsPinned ==
  ASSUME NEW disk, NEW manifest, NEW record,
         ExpectedEntry(disk, manifest, record).fault = "none"
  PROVE  /\ ExpectedEntry(disk, manifest, record).tool = record.tool
         /\ ExpectedEntry(disk, manifest, record).version = record.version
<1> DEFINE shared == FirstWith(manifest.tools, LAMBDA r : r.kind = "native"
                                                     /\ r.receipt.raw = record.receipt.raw)
           place == FileAt(disk, record.receipt.file)
           receipt == place.document
           built == FirstWith(receipt.executables, LAMBDA e : e.tool = record.tool)
           first == record.executables[1]
           fault ==
             CASE Len(record.executables) # 1       -> "executable count"
               [] record.kind = "upstream"          -> "none"
               [] place = NoFile \/ ~place.inside   -> "receipt missing"
               [] place.size > MaxReceipt           -> "receipt too large"
               [] receipt = <<>>                    -> "receipt not JSON"
               [] ReceiptFault(receipt, manifest.target, shared.source.ref) # "none" -> "receipt"
               [] \A i \in DOMAIN receipt.executables : receipt.executables[i].tool # record.tool ->
                     "receipt lacks the tool"
               [] built.path.raw # first.path.raw -> "receipt path"
               [] OTHER -> "none"
           found == IF record.kind = "upstream" THEN first ELSE built
<1>1. ExpectedEntry(disk, manifest, record) =
        IF fault # "none" THEN [fault |-> fault]
        ELSE [fault |-> "none", tool |-> record.tool, version |-> record.version,
              file |-> found.path.file, size |-> found.size, digest |-> found.digest]
  BY Zenon DEF ExpectedEntry
<1> HIDE DEF shared, place, receipt, built, first, fault, found
<1> QED
  BY <1>1

LEMMA VerifiedManifest ==
  ASSUME NEW disk, NEW manifest, DOMAIN manifest.tools \subseteq Nat,
         TargetFault(manifest) = "none",
         NEW set, set = VerifyManifest(disk, manifest), set.fault = "none"
  PROVE  /\ DOMAIN set.paths = ToolNames
         /\ \A t \in ToolNames :
              \E i \in DOMAIN manifest.tools :
                 LET entry == ExpectedEntry(disk, manifest, manifest.tools[i])
                 IN  /\ entry.fault = "none" /\ entry.tool = t /\ set.paths[t] = entry.file
                     /\ EntryIs(disk, entry) /\ entry.version = Baseline[t]
<1> DEFINE expected == [i \in DOMAIN manifest.tools |->
                            ExpectedEntry(disk, manifest, manifest.tools[i])]
           Fault(e) == IF e.fault # "none" THEN e.fault ELSE EntryFault(disk, e)
           faulty == {i \in DOMAIN expected : Fault(expected[i]) # "none"}
           fault == IF faulty = {} THEN "none" ELSE Fault(expected[Min(faulty)])
<1>1. set = IF fault # "none" THEN Refused(fault)
            ELSE VerifiedSet(manifest.target, PathsOf(expected))
  BY DEF VerifyManifest, FirstFaultOf
<1>2. fault = "none" => faulty = {}
  <2>1. faulty # {} => Min(faulty) \in faulty
    BY MinIsFirst
  <2> QED
    BY <2>1
<1> HIDE DEF fault
<1>3. fault = "none" /\ set.paths = PathsOf(expected)
  BY <1>1 DEF Refused, VerifiedSet
<1>4. ASSUME NEW i \in DOMAIN manifest.tools
      PROVE  /\ expected[i].fault = "none" /\ EntryIs(disk, expected[i])
             /\ expected[i].tool = manifest.tools[i].tool
             /\ expected[i].version = Baseline[manifest.tools[i].tool]
  <2>1. expected[i] = ExpectedEntry(disk, manifest, manifest.tools[i])
    OBVIOUS
  <2>2. Fault(expected[i]) = "none"
    BY <1>2, <1>3
  <2>3. expected[i].fault = "none" /\ EntryFault(disk, expected[i]) = "none"
    BY <2>2
  <2>4. expected[i].tool = manifest.tools[i].tool /\ expected[i].version = manifest.tools[i].version
    BY <2>1, <2>3, ExpectedIsPinned
  <2>5. manifest.tools[i].version = Baseline[manifest.tools[i].tool]
    BY PinnedManifest
  <2> QED
    BY <2>3, <2>4, <2>5, EntryHolds
<1>5. {manifest.tools[i].tool : i \in DOMAIN manifest.tools} = ToolNames
  BY PinnedManifest
<1>6. DOMAIN expected = DOMAIN manifest.tools
  OBVIOUS
<1>7. \A i \in DOMAIN manifest.tools :
        expected[i] = ExpectedEntry(disk, manifest, manifest.tools[i])
  OBVIOUS
<1> HIDE DEF expected
<1>8. {expected[i].tool : i \in DOMAIN expected} = ToolNames
  BY <1>4, <1>5, <1>6
<1>9. DOMAIN set.paths = ToolNames
  BY <1>3, <1>8, PathsFollow
<1>10. ASSUME NEW t \in ToolNames
       PROVE  \E i \in DOMAIN manifest.tools :
                 LET entry == ExpectedEntry(disk, manifest, manifest.tools[i])
                 IN  /\ entry.fault = "none" /\ entry.tool = t /\ set.paths[t] = entry.file
                     /\ EntryIs(disk, entry) /\ entry.version = Baseline[t]
  <2>1. PICK i \in DOMAIN expected : expected[i].tool = t /\ set.paths[t] = expected[i].file
    <3>1. t \in DOMAIN PathsOf(expected)
      BY <1>3, <1>9
    <3>2. PICK i \in DOMAIN expected : expected[i].tool = t /\ PathsOf(expected)[t] = expected[i].file
      BY <3>1, PathsFollow
    <3> QED
      BY <3>2, <1>3
  <2>2. i \in DOMAIN manifest.tools
    BY <1>6
  <2> QED
    BY <2>1, <2>2, <1>4, <1>7
<1> QED
  BY <1>9, <1>10

(* An inventory lists the executables of a directory in their pinned         *)
(* versions.                                                                 *)
LEMMA VerifiedStaged ==
  ASSUME NEW target, NEW disk, VerifyStaged(target, disk).fault = "none"
  PROVE  LET document == FileAt(disk, <<"SHA256SUMS">>).document
         IN  \E entries :
               /\ DOMAIN entries = DOMAIN AllTools
               /\ \A i \in DOMAIN AllTools :
                    /\ entries[i].tool = AllTools[i] /\ entries[i].version = Baseline[AllTools[i]]
                    /\ entries[i].digest = DigestOf(document, StagedName(AllTools[i], target))
               /\ VerifyStaged(target, disk) = VerifyEntries(target, disk, entries)
<1> DEFINE inventory == FileAt(disk, <<"SHA256SUMS">>)
           entries == [i \in DOMAIN AllTools |->
             [tool |-> AllTools[i], version |-> Baseline[AllTools[i]],
              file |-> StagedName(AllTools[i], target),
              size |-> FileAt(disk, StagedName(AllTools[i], target)).size,
              digest |-> DigestOf(inventory.document, StagedName(AllTools[i], target))]]
           names == {inventory.document[i].name : i \in DOMAIN inventory.document}
           fault == InventoryFault(inventory.document, inventory.size)
           absent == inventory = NoFile
           partial == \E t \in ToolNames : StagedName(t, target) \notin names
           whole == VerifyEntries(target, disk, entries)
<1>1. VerifyStaged(target, disk) =
        CASE absent -> Refused("missing")
          [] fault # "none" -> Refused(fault)
          [] partial -> Refused("staged tool")
          [] OTHER -> whole
  BY Zenon DEF VerifyStaged, VerifyInventory, InventoryEntries
<1>2. VerifyStaged(target, disk) = whole
  <2>1. "missing" # "none" /\ "staged tool" # "none"
    OBVIOUS
  <2> HIDE DEF whole, fault, absent, partial
  <2> QED
    BY <1>1, <2>1, RefusedFails, Zenon
<1>3. /\ DOMAIN entries = DOMAIN AllTools
      /\ \A i \in DOMAIN AllTools :
           /\ entries[i].tool = AllTools[i] /\ entries[i].version = Baseline[AllTools[i]]
           /\ entries[i].digest = DigestOf(inventory.document, StagedName(AllTools[i], target))
  OBVIOUS
<1> HIDE DEF entries
<1> QED
  BY <1>2, <1>3

LEMMA VerifiedExternal ==
  ASSUME NEW target, NEW disk, NEW inventory,
         VerifyExternal(target, disk, inventory).fault = "none"
  PROVE  \E entries :
           /\ DOMAIN entries = DOMAIN AllTools
           /\ \A i \in DOMAIN AllTools :
                /\ entries[i].tool = AllTools[i] /\ entries[i].version = Baseline[AllTools[i]]
                /\ entries[i].digest = DigestOf(inventory.document, StagedName(AllTools[i], target))
           /\ VerifyExternal(target, disk, inventory) = VerifyEntries(target, disk, entries)
<1> DEFINE entries == [i \in DOMAIN AllTools |->
             [tool |-> AllTools[i], version |-> Baseline[AllTools[i]], file |-> <<AllTools[i]>>,
              size |-> FileAt(disk, <<AllTools[i]>>).size,
              digest |-> DigestOf(inventory.document, StagedName(AllTools[i], target))]]
           names == {inventory.document[i].name : i \in DOMAIN inventory.document}
           fault == InventoryFault(inventory.document, inventory.size)
           absent == inventory = NoFile
           partial == \E t \in ToolNames : StagedName(t, target) \notin names
           whole == VerifyEntries(target, disk, entries)
<1>1. VerifyExternal(target, disk, inventory) =
        CASE absent -> Refused("missing")
          [] fault # "none" -> Refused(fault)
          [] partial -> Refused("staged tool")
          [] OTHER -> whole
  BY Zenon DEF VerifyExternal, VerifyInventory, InventoryEntries
<1>2. VerifyExternal(target, disk, inventory) = whole
  <2>1. "missing" # "none" /\ "staged tool" # "none"
    OBVIOUS
  <2> HIDE DEF whole, fault, absent, partial
  <2> QED
    BY <1>1, <2>1, RefusedFails, Zenon
<1>3. /\ DOMAIN entries = DOMAIN AllTools
      /\ \A i \in DOMAIN AllTools :
           /\ entries[i].tool = AllTools[i] /\ entries[i].version = Baseline[AllTools[i]]
           /\ entries[i].digest = DigestOf(inventory.document, StagedName(AllTools[i], target))
  OBVIOUS
<1> HIDE DEF entries
<1> QED
  BY <1>2, <1>3

-----------------------------------------------------------------------------
(* The choice of the tools.                                                  *)

(* A set that is used has every tool, each in the version and with the       *)
(* digest its list says; outside an update that is the pinned version.       *)
SetIs(set, disk, label) ==
    set.fault = "none" =>
        /\ DOMAIN set.paths = ToolNames
        /\ \A t \in ToolNames :
              LET file == FileAt(disk, set.paths[t])
              IN  /\ file.inside /\ file.executable /\ file.runs /\ file.says = t
                  /\ file.digest = DigestFor(t, label)
                  /\ label = "old" => file.version = Baseline[t]

(* A set of a managed update is none, or what its signed list, with the      *)
(* digests of new programs, verifies.                                        *)
ManagedFrom(set, disk) ==
    \/ set.fault # "none"
    \/ \E target, entries :
          /\ DOMAIN entries \subseteq Nat
          /\ \A i \in DOMAIN entries : entries[i].digest = DigestFor(entries[i].tool, "new")
          /\ set = VerifyEntries(target, disk, entries)

(* A set of bundled tools is none, what an inventory or a checksum file      *)
(* verifies, or what a sound manifest does, with the digests of the pinned   *)
(* programs.                                                                 *)
BundledFrom(set, disk) ==
    LET Lists(document, target) ==
            \A t \in ToolNames : DigestOf(document, StagedName(t, target)) = DigestFor(t, "old")
    IN  \/ set.fault # "none"
        \/ \E target, inventory :
              /\ set = OptionalBundled(target, disk, inventory)
              /\ Lists((IF inventory # NoFile THEN inventory
                        ELSE FileAt(disk, <<"SHA256SUMS">>)).document, target)
        \/ \E manifest :
              /\ DOMAIN manifest.tools \subseteq Nat /\ TargetFault(manifest) = "none"
              /\ set = VerifyManifest(disk, manifest)
              /\ \A i \in DOMAIN manifest.tools :
                    LET entry == ExpectedEntry(disk, manifest, manifest.tools[i])
                    IN  entry.fault = "none" => entry.digest = DigestFor(entry.tool, "old")

LEMMA AllToolsAre ==
  /\ DOMAIN AllTools \subseteq Nat
  /\ \A i \in DOMAIN AllTools : AllTools[i] \in ToolNames
  /\ \A i, j \in DOMAIN AllTools : i # j => AllTools[i] # AllTools[j]
BY ToolsAssumption DEF ToolNames

LEMMA ManagedIs ==
  ASSUME NEW set, NEW disk, ManagedFrom(set, disk)
  PROVE  SetIs(set, disk, "new")
<1> SUFFICES ASSUME set.fault = "none" PROVE SetIs(set, disk, "new")
  BY DEF SetIs
<1>1. PICK target, entries :
          /\ DOMAIN entries \subseteq Nat
          /\ \A i \in DOMAIN entries : entries[i].digest = DigestFor(entries[i].tool, "new")
          /\ set = VerifyEntries(target, disk, entries)
  BY Zenon DEF ManagedFrom
<1>2. /\ DOMAIN set.paths = ToolNames
      /\ \A t \in ToolNames :
              \E i \in DOMAIN entries : /\ entries[i].tool = t /\ set.paths[t] = entries[i].file
                                        /\ EntryIs(disk, entries[i])
  BY <1>1, VerifiedEntries
<1>3. ASSUME NEW t \in ToolNames
      PROVE  LET file == FileAt(disk, set.paths[t])
             IN  /\ file.inside /\ file.executable /\ file.runs /\ file.says = t
                 /\ file.digest = DigestFor(t, "new")
  <2>1. PICK i \in DOMAIN entries : /\ entries[i].tool = t /\ set.paths[t] = entries[i].file
                                    /\ EntryIs(disk, entries[i])
    BY <1>2
  <2> QED
    BY <1>1, <2>1 DEF EntryIs
<1> QED
  BY <1>2, <1>3 DEF SetIs

LEMMA ListedIs ==
  ASSUME NEW set, NEW disk, NEW target, NEW entries, NEW document,
         set.fault = "none", set = VerifyEntries(target, disk, entries),
         DOMAIN entries = DOMAIN AllTools,
         \A i \in DOMAIN AllTools :
            /\ entries[i].tool = AllTools[i] /\ entries[i].version = Baseline[AllTools[i]]
            /\ entries[i].digest = DigestOf(document, StagedName(AllTools[i], target)),
         \A t \in ToolNames : DigestOf(document, StagedName(t, target)) = DigestFor(t, "old")
  PROVE  SetIs(set, disk, "old")
<1>1. /\ DOMAIN set.paths = ToolNames
      /\ \A t \in ToolNames :
              \E i \in DOMAIN entries : /\ entries[i].tool = t /\ set.paths[t] = entries[i].file
                                        /\ EntryIs(disk, entries[i])
  BY AllToolsAre, VerifiedEntries
<1>2. ASSUME NEW t \in ToolNames
      PROVE  LET file == FileAt(disk, set.paths[t])
             IN  /\ file.inside /\ file.executable /\ file.runs /\ file.says = t
                 /\ file.digest = DigestFor(t, "old") /\ file.version = Baseline[t]
  <2>1. PICK i \in DOMAIN entries : /\ entries[i].tool = t /\ set.paths[t] = entries[i].file
                                    /\ EntryIs(disk, entries[i])
    BY <1>1
  <2>2. AllTools[i] = t
    BY <2>1
  <2>3. entries[i].version = Baseline[t] /\ entries[i].digest = DigestFor(t, "old")
    BY <2>2
  <2> QED
    BY <2>1, <2>3 DEF EntryIs
<1> QED
  BY <1>1, <1>2 DEF SetIs

LEMMA BundledIs ==
  ASSUME NEW set, NEW disk, BundledFrom(set, disk)
  PROVE  SetIs(set, disk, "old")
<1> SUFFICES ASSUME set.fault = "none" PROVE SetIs(set, disk, "old")
  BY DEF SetIs
<1>1. CASE \E target, inventory :
              /\ set = OptionalBundled(target, disk, inventory)
              /\ LET document == (IF inventory # NoFile THEN inventory
                                  ELSE FileAt(disk, <<"SHA256SUMS">>)).document
                 IN  \A t \in ToolNames :
                        DigestOf(document, StagedName(t, target)) = DigestFor(t, "old")
  <2>1. PICK target, inventory :
              /\ set = OptionalBundled(target, disk, inventory)
              /\ LET document == (IF inventory # NoFile THEN inventory
                                  ELSE FileAt(disk, <<"SHA256SUMS">>)).document
                 IN  \A t \in ToolNames :
                        DigestOf(document, StagedName(t, target)) = DigestFor(t, "old")
    BY <1>1, Zenon
  <2>2. CASE inventory # NoFile
    <3>1. set = VerifyExternal(target, disk, inventory)
      BY <2>1, <2>2, Zenon DEF OptionalBundled
    <3>2. \A t \in ToolNames :
             DigestOf(inventory.document, StagedName(t, target)) = DigestFor(t, "old")
      BY <2>1, <2>2, Zenon
    <3>3. VerifyExternal(target, disk, inventory).fault = "none"
      BY <3>1, Zenon
    <3>4. PICK entries :
           /\ DOMAIN entries = DOMAIN AllTools
           /\ \A i \in DOMAIN AllTools :
                /\ entries[i].tool = AllTools[i] /\ entries[i].version = Baseline[AllTools[i]]
                /\ entries[i].digest = DigestOf(inventory.document, StagedName(AllTools[i], target))
           /\ VerifyExternal(target, disk, inventory) = VerifyEntries(target, disk, entries)
      BY <3>3, VerifiedExternal, Zenon
    <3>5. set = VerifyEntries(target, disk, entries)
      BY <3>1, <3>4, Zenon
    <3> QED
      BY <3>2, <3>4, <3>5, ListedIs
  <2>3. CASE inventory = NoFile
    <3> DEFINE document == FileAt(disk, <<"SHA256SUMS">>).document
    <3>1. set = VerifyStaged(target, disk)
      BY <2>1, <2>3, Zenon DEF OptionalBundled
    <3>2. \A t \in ToolNames :
             DigestOf(document, StagedName(t, target)) = DigestFor(t, "old")
      BY <2>1, <2>3, Zenon
    <3>3. VerifyStaged(target, disk).fault = "none"
      BY <3>1, Zenon
    <3>4. PICK entries :
           /\ DOMAIN entries = DOMAIN AllTools
           /\ \A i \in DOMAIN AllTools :
                /\ entries[i].tool = AllTools[i] /\ entries[i].version = Baseline[AllTools[i]]
                /\ entries[i].digest = DigestOf(document, StagedName(AllTools[i], target))
           /\ VerifyStaged(target, disk) = VerifyEntries(target, disk, entries)
      BY <3>3, VerifiedStaged, Zenon
    <3>5. set = VerifyEntries(target, disk, entries)
      BY <3>1, <3>4, Zenon
    <3> HIDE DEF document
    <3> QED
      BY <3>2, <3>4, <3>5, ListedIs
  <2> QED
    BY <2>2, <2>3
<1>2. CASE \E manifest :
              /\ DOMAIN manifest.tools \subseteq Nat /\ TargetFault(manifest) = "none"
              /\ set = VerifyManifest(disk, manifest)
              /\ \A i \in DOMAIN manifest.tools :
                    LET entry == ExpectedEntry(disk, manifest, manifest.tools[i])
                    IN  entry.fault = "none" => entry.digest = DigestFor(entry.tool, "old")
  <2>1. PICK manifest :
              /\ DOMAIN manifest.tools \subseteq Nat /\ TargetFault(manifest) = "none"
              /\ set = VerifyManifest(disk, manifest)
              /\ \A i \in DOMAIN manifest.tools :
                    LET entry == ExpectedEntry(disk, manifest, manifest.tools[i])
                    IN  entry.fault = "none" => entry.digest = DigestFor(entry.tool, "old")
    BY <1>2, Zenon
  <2>2. /\ DOMAIN set.paths = ToolNames
        /\ \A t \in ToolNames :
              \E i \in DOMAIN manifest.tools :
                 LET entry == ExpectedEntry(disk, manifest, manifest.tools[i])
                 IN  /\ entry.fault = "none" /\ entry.tool = t /\ set.paths[t] = entry.file
                     /\ EntryIs(disk, entry) /\ entry.version = Baseline[t]
    BY <2>1, VerifiedManifest
  <2>3. ASSUME NEW t \in ToolNames
        PROVE  LET file == FileAt(disk, set.paths[t])
               IN  /\ file.inside /\ file.executable /\ file.runs /\ file.says = t
                   /\ file.digest = DigestFor(t, "old") /\ file.version = Baseline[t]
    <3>1. PICK i \in DOMAIN manifest.tools :
                 LET entry == ExpectedEntry(disk, manifest, manifest.tools[i])
                 IN  /\ entry.fault = "none" /\ entry.tool = t /\ set.paths[t] = entry.file
                     /\ EntryIs(disk, entry) /\ entry.version = Baseline[t]
      BY <2>2
    <3> DEFINE entry == ExpectedEntry(disk, manifest, manifest.tools[i])
    <3>2. entry.digest = DigestFor(t, "old")
      BY <2>1, <3>1
    <3> HIDE DEF entry
    <3> QED
      BY <3>1, <3>2 DEF EntryIs, entry
  <2> QED
    BY <2>2, <2>3 DEF SetIs
<1> QED
  BY <1>1, <1>2, Zenon DEF BundledFrom

(* Where one tool comes from, when it is found.                              *)
FoundIn(tool, config, r) ==
    \/ /\ tool \in DOMAIN config.overrides /\ r.tier = "override"
       /\ r.file.executable /\ r.file.runs /\ r.file.says = tool
       /\ r.file.version = Baseline[tool]
    \/ /\ tool \notin DOMAIN config.overrides /\ Has(config.managed, tool)
       /\ r.tier = "managed" /\ r.file = FileAt(config.managedDisk, config.managed.paths[tool])
    \/ /\ tool \notin DOMAIN config.overrides /\ ~Has(config.managed, tool)
       /\ Has(config.bundled, tool)
       /\ r.tier = "bundled" /\ r.file = FileAt(config.bundledDisk, config.bundled.paths[tool])
    \/ /\ tool \notin DOMAIN config.overrides /\ ~Has(config.managed, tool)
       /\ ~Has(config.bundled, tool) /\ config.development /\ r.tier = "path"
       /\ r.file.executable /\ r.file.runs /\ r.file.says = tool
       /\ r.file.version = Baseline[tool]

LEMMA UnresolvedFails == \A fault : fault # "none" => Unresolved(fault).fault # "none"
BY DEF Unresolved

LEMMA ResolvedIs ==
  \A tool, tier, file : LET r == Resolved(tool, tier, file)
                        IN  r.fault = "none" /\ r.tool = tool /\ r.tier = tier /\ r.file = file
BY DEF Resolved

LEMMA UnverifiedIs ==
  ASSUME NEW tool, NEW tier, NEW file, NEW r, r = ResolveUnverified(tool, tier, file),
         r.fault = "none"
  PROVE  /\ r.tool = tool /\ r.tier = tier /\ r.file = file
         /\ file.executable /\ file.runs /\ file.says = tool /\ file.version = Baseline[tool]
<1>1. "candidate" # "none" /\ "probe" # "none"
  OBVIOUS
<1>2. r = Resolved(tool, tier, file) /\ ~(file = NoFile \/ ~file.executable)
      /\ ~ProbeFails(tool, Baseline[tool], file)
  BY <1>1, UnresolvedFails, Zenon DEF ResolveUnverified
<1> QED
  BY <1>2, ResolvedIs DEF ProbeFails

LEMMA ResolveFinds ==
  ASSUME NEW tool, NEW config, NEW r, r = Resolve(tool, Target, config), r.fault = "none"
  PROVE  r.tool = tool /\ FoundIn(tool, config, r)
<1> DEFINE over == tool \in DOMAIN config.overrides
           managed == Has(config.managed, tool)
           bundled == Has(config.bundled, tool)
           Holds(directory) == tool \in DOMAIN directory
           open == config.development /\ \E i \in DOMAIN config.search : Holds(config.search[i])
           searched == FirstWith(config.search, Holds)[tool]
           fromOverride == ResolveUnverified(tool, "override", config.overrides[tool])
           fromManaged == Resolved(tool, "managed", FileAt(config.managedDisk, config.managed.paths[tool]))
           fromBundled == Resolved(tool, "bundled", FileAt(config.bundledDisk, config.bundled.paths[tool]))
           fromPath == ResolveUnverified(tool, "path", searched)
<1>1. r = IF over THEN fromOverride
          ELSE IF Strays(config.managed) THEN Unresolved("managed target")
          ELSE IF managed THEN fromManaged
          ELSE IF Strays(config.bundled) THEN Unresolved("bundled target")
          ELSE IF bundled THEN fromBundled
          ELSE IF open THEN fromPath
          ELSE Unresolved("not found")
  BY Zenon DEF Resolve
<1>2. "managed target" # "none" /\ "bundled target" # "none" /\ "not found" # "none"
  OBVIOUS
<1>3. open => config.development
  OBVIOUS
<1>4. \/ over /\ r = fromOverride
      \/ ~over /\ managed /\ r = fromManaged
      \/ ~over /\ ~managed /\ bundled /\ r = fromBundled
      \/ ~over /\ ~managed /\ ~bundled /\ open /\ r = fromPath
  <2> HIDE DEF over, managed, bundled, open, fromOverride, fromManaged, fromBundled, fromPath
  <2> QED
    BY <1>1, <1>2, UnresolvedFails, Zenon
<1> HIDE DEF searched, open
<1>5. CASE over /\ r = fromOverride
  BY <1>5, UnverifiedIs DEF FoundIn
<1>6. CASE ~over /\ managed /\ r = fromManaged
  <2>1. /\ r.tool = tool /\ r.tier = "managed"
        /\ r.file = FileAt(config.managedDisk, config.managed.paths[tool])
    BY <1>6, ResolvedIs
  <2> QED
    BY <1>6, <2>1 DEF FoundIn
<1>7. CASE ~over /\ ~managed /\ bundled /\ r = fromBundled
  <2>1. /\ r.tool = tool /\ r.tier = "bundled"
        /\ r.file = FileAt(config.bundledDisk, config.bundled.paths[tool])
    BY <1>7, ResolvedIs
  <2> QED
    BY <1>7, <2>1 DEF FoundIn
<1>8. CASE ~over /\ ~managed /\ ~bundled /\ open /\ r = fromPath
  BY <1>3, <1>8, UnverifiedIs DEF FoundIn
<1> QED
  BY <1>4, <1>5, <1>6, <1>7, <1>8, Zenon

LEMMA ResolveToolsFinds ==
  ASSUME NEW config, ResolveTools(config) # <<>>
  PROVE  LET all == ResolveTools(config)
         IN  /\ DOMAIN all = DOMAIN AllTools
             /\ [i \in DOMAIN all |-> all[i].tool] = AllTools
             /\ \A i \in DOMAIN AllTools :
                   /\ all[i].tool = AllTools[i]
                   /\ FoundIn(AllTools[i], config, all[i])
<1> DEFINE all == [i \in DOMAIN AllTools |-> Resolve(AllTools[i], Target, config)]
           failed == {i \in DOMAIN all : all[i].fault # "none"}
           fault == IF failed = {} THEN "none" ELSE all[Min(failed)].fault
<1>1. ResolveTools(config) = IF fault = "none" THEN all ELSE <<>>
  BY DEF ResolveTools, FirstFaultOf
<1>2. failed \in SUBSET Nat
  BY AllToolsAre
<1>3. failed # {} => Min(failed) \in failed
  BY <1>2, MinIsFirst
<1>4. fault = "none" => failed = {}
  BY <1>3
<1>5. DOMAIN all = DOMAIN AllTools /\ \A i \in DOMAIN AllTools : all[i] = Resolve(AllTools[i], Target, config)
  OBVIOUS
<1> HIDE DEF fault
<1>6. ResolveTools(config) = all /\ failed = {}
  BY <1>1, <1>4
<1>7. \A i \in DOMAIN AllTools : all[i].fault = "none"
  BY <1>5, <1>6
<1> HIDE DEF all
<1>8. \A i \in DOMAIN AllTools : all[i].tool = AllTools[i] /\ FoundIn(AllTools[i], config, all[i])
  BY <1>5, <1>7, ResolveFinds
<1>9. [i \in DOMAIN all |-> all[i].tool] = AllTools
  BY <1>5, <1>8, ToolsAssumption
<1> QED
  BY <1>5, <1>6, <1>8, <1>9

(* The tools a program starts with come from one tier, whatever their number,*)
(* the sets on the disks, the overrides and the search path are: each set is *)
(* one that was verified, so that it has every tool or none, and what a tier *)
(* answers for one tool it answers for all that are not overridden           *)
(* (resolver.rs:62, :254, :700).  The digests are those of the programs.     *)
THEOREM ToolsComeFromOneTier ==
  ASSUME probe.about = "tools" =>
            /\ ManagedFrom(probe.config.managed, probe.config.managedDisk)
            /\ BundledFrom(probe.config.bundled, probe.config.bundledDisk)
  PROVE  OneTierUnlessOverridden
<1> DEFINE config == probe.config
           all == ResolveTools(config)
<1> SUFFICES ASSUME probe.about = "tools", all # <<>>
             PROVE  OneTierUnlessOverridden
  BY DEF OneTierUnlessOverridden
<1>1. /\ SetIs(config.managed, config.managedDisk, "new")
      /\ SetIs(config.bundled, config.bundledDisk, "old")
  BY ManagedIs, BundledIs
<1>2. /\ DOMAIN all = DOMAIN AllTools
      /\ [i \in DOMAIN all |-> all[i].tool] = AllTools
      /\ \A i \in DOMAIN AllTools : /\ all[i].tool = AllTools[i]
                                    /\ FoundIn(AllTools[i], config, all[i])
  BY ResolveToolsFinds
<1> HIDE DEF all, config
<1>3. \A t \in ToolNames :
         /\ Has(config.managed, t) <=> config.managed.fault = "none"
         /\ Has(config.bundled, t) <=> config.bundled.fault = "none"
  BY <1>1 DEF SetIs, Has
<1>4. ASSUME NEW i \in DOMAIN AllTools
      PROVE  /\ all[i].tier = "path" => config.development
             /\ all[i].file.says = all[i].tool /\ all[i].file.runs /\ all[i].file.executable
             /\ all[i].tier # "managed" => all[i].file.version = Baseline[all[i].tool]
             /\ all[i].tier \in {"managed", "bundled"} =>
                   /\ all[i].file.inside
                   /\ all[i].file.digest = DigestFor(all[i].tool, IF all[i].tier = "managed"
                                                                  THEN "new" ELSE "old")
  <2> DEFINE t == AllTools[i]
             r == all[i]
  <2>1. t \in ToolNames /\ r.tool = t /\ FoundIn(t, config, r)
    BY <1>2, AllToolsAre
  <2> HIDE DEF t, r
  <2>2. CASE Has(config.managed, t) /\ r.tier = "managed"
              /\ r.file = FileAt(config.managedDisk, config.managed.paths[t])
    BY <1>1, <1>3, <2>1, <2>2 DEF SetIs, r
  <2>3. CASE Has(config.bundled, t) /\ r.tier = "bundled"
              /\ r.file = FileAt(config.bundledDisk, config.bundled.paths[t])
    BY <1>1, <1>3, <2>1, <2>3 DEF SetIs, r
  <2>4. CASE /\ r.tier = "override" \/ (r.tier = "path" /\ config.development)
             /\ r.file.executable /\ r.file.runs /\ r.file.says = t
             /\ r.file.version = Baseline[t]
    BY <2>1, <2>4 DEF r
  <2>5. \/ Has(config.managed, t) /\ r.tier = "managed"
           /\ r.file = FileAt(config.managedDisk, config.managed.paths[t])
        \/ Has(config.bundled, t) /\ r.tier = "bundled"
           /\ r.file = FileAt(config.bundledDisk, config.bundled.paths[t])
        \/ /\ r.tier = "override" \/ (r.tier = "path" /\ config.development)
           /\ r.file.executable /\ r.file.runs /\ r.file.says = t
           /\ r.file.version = Baseline[t]
    <3>1. FoundIn(t, config, r)
      BY <2>1
    <3> QED
      BY <3>1, Zenon DEF FoundIn
  <2> QED
    BY <2>2, <2>3, <2>4, <2>5, Zenon
<1>5. ASSUME NEW i \in DOMAIN AllTools, NEW j \in DOMAIN AllTools,
             {all[i].tool, all[j].tool} \intersect DOMAIN config.overrides = {}
      PROVE  all[i].tier = all[j].tier
  <2>1. /\ AllTools[i] \in ToolNames /\ AllTools[i] \notin DOMAIN config.overrides
        /\ AllTools[j] \in ToolNames /\ AllTools[j] \notin DOMAIN config.overrides
    BY <1>2, <1>5, AllToolsAre
  <2>2. FoundIn(AllTools[i], config, all[i]) /\ FoundIn(AllTools[j], config, all[j])
    BY <1>2
  <2> QED
    BY <1>3, <2>1, <2>2 DEF FoundIn
<1>6. ASSUME NEW i \in DOMAIN AllTools, NEW j \in DOMAIN AllTools, i # j
      PROVE  all[i].file # all[j].file
  <2>1. all[i].tool # all[j].tool
    BY <1>2, <1>6, AllToolsAre
  <2> QED
    BY <1>4, <2>1
<1> QED
  BY <1>2, <1>4, <1>5, <1>6 DEF OneTierUnlessOverridden, config, all

-----------------------------------------------------------------------------
(* Signed updates.                                                           *)

LEMMA TwelveChecks ==
  ASSUME NEW a, NEW b, NEW c, NEW d, NEW e, NEW f, NEW g, NEW h, NEW k, NEW l, NEW m, NEW o,
         a.fails => a.fault # "none", b.fails => b.fault # "none", c.fails => c.fault # "none",
         d.fails => d.fault # "none", e.fails => e.fault # "none", f.fails => f.fault # "none",
         g.fails => g.fault # "none", h.fails => h.fault # "none", k.fails => k.fault # "none",
         l.fails => l.fault # "none", m.fails => m.fault # "none", o.fails => o.fault # "none",
         FirstFault(<<a, b, c, d, e, f, g, h, k, l, m, o>>) = "none"
  PROVE  /\ ~a.fails /\ ~b.fails /\ ~c.fails /\ ~d.fails /\ ~e.fails /\ ~f.fails
         /\ ~g.fails /\ ~h.fails /\ ~k.fails /\ ~l.fails /\ ~m.fails /\ ~o.fails
<1> DEFINE checks == <<a, b, c, d, e, f, g, h, k, l, m, o>>
<1>1. /\ DOMAIN checks = 1 .. 12 /\ checks[1] = a /\ checks[2] = b /\ checks[3] = c
      /\ checks[4] = d /\ checks[5] = e /\ checks[6] = f /\ checks[7] = g /\ checks[8] = h
      /\ checks[9] = k /\ checks[10] = l /\ checks[11] = m /\ checks[12] = o
  OBVIOUS
<1> HIDE DEF checks
<1>2. \A i \in 1 .. 12 : \/ checks[i] = a \/ checks[i] = b \/ checks[i] = c \/ checks[i] = d
                          \/ checks[i] = e \/ checks[i] = f \/ checks[i] = g \/ checks[i] = h
                          \/ checks[i] = k \/ checks[i] = l \/ checks[i] = m \/ checks[i] = o
  BY <1>1
<1>3. ASSUME NEW i \in 1 .. 12, checks[i].fails PROVE checks[i].fault # "none"
  <2>1. CASE \/ checks[i] = a \/ checks[i] = b \/ checks[i] = c \/ checks[i] = d
             \/ checks[i] = e \/ checks[i] = f
    BY <1>3, <2>1, Zenon
  <2>2. CASE \/ checks[i] = g \/ checks[i] = h \/ checks[i] = k \/ checks[i] = l
             \/ checks[i] = m \/ checks[i] = o
    BY <1>3, <2>2, Zenon
  <2> QED
    BY <1>2, <2>1, <2>2
<1>4. FirstFault(checks) = "none" => \A i \in 1 .. 12 : ~checks[i].fails
  BY <1>1, <1>3, NoFault
<1>5. {1, 2, 3, 4, 5, 6, 7, 8, 9, 10, 11, 12} \subseteq 1 .. 12
  OBVIOUS
<1>6. \A i \in 1 .. 12 : ~checks[i].fails
  BY <1>4 DEF checks
<1> QED
  BY <1>1, <1>5, <1>6, ZenonT(60)

(* What a manifest that passes its validation says.                          *)
LEMMA SoundManifest ==
  ASSUME NEW manifest, NEW target, ManifestFault(manifest, target) = "none"
  PROVE  /\ manifest.target = target
         /\ ~(AppVersion < manifest.minimum) /\ ~(manifest.release < manifest.minimum)
         /\ ~Repeated(manifest.tools)
         /\ ~ \E i, j \in DOMAIN manifest.tools :
                 i < j /\ manifest.tools[i].path.key = manifest.tools[j].path.key
         /\ {manifest.tools[i].tool : i \in DOMAIN manifest.tools} = ToolNames
<1> DEFINE broken == FirstFaultOf(manifest.tools, UpdateToolFault)
           unusable == ArchiveFault(manifest.archive)
           named == {manifest.tools[i].tool : i \in DOMAIN manifest.tools}
           twice == \E i, j \in DOMAIN manifest.tools :
                       i < j /\ manifest.tools[i].path.key = manifest.tools[j].path.key
           a == Check(manifest.schema # Schema, "schema")
           b == Check(manifest.target # target, "target")
           c == Check(manifest.channel = "malformed", "channel")
           d == Check(NotAVersion \in {manifest.release, manifest.minimum}, "version")
           e == Check(AppVersion < manifest.minimum, "application too old")
           f == Check(manifest.release < manifest.minimum, "release before minimum")
           g == Check(manifest.created # "utc", "creation time")
           h == Check(unusable # "none", unusable)
           k == Check(broken # "none", broken)
           l == Check(Repeated(manifest.tools), "duplicate tool")
           m == Check(twice, "duplicate path")
           o == Check(named # ToolNames, "incomplete")
<1>1. FirstFault(<<a, b, c, d, e, f, g, h, k, l, m, o>>) = "none"
  BY Zenon DEF ManifestFault
<1> HIDE DEF broken, unusable
<1>2. /\ a.fault # "none" /\ b.fault # "none" /\ c.fault # "none" /\ d.fault # "none"
      /\ e.fault # "none" /\ f.fault # "none" /\ g.fault # "none" /\ l.fault # "none"
      /\ m.fault # "none" /\ o.fault # "none"
      /\ h.fails => h.fault # "none"
      /\ k.fails => k.fault # "none"
  BY DEF Check
<1>3. /\ b.fails <=> manifest.target # target
      /\ e.fails <=> AppVersion < manifest.minimum
      /\ f.fails <=> manifest.release < manifest.minimum
      /\ l.fails <=> Repeated(manifest.tools)
      /\ m.fails <=> twice
      /\ o.fails <=> named # ToolNames
  <2> HIDE DEF twice
  <2> QED
    BY DEF Check
<1>4. ~b.fails /\ ~e.fails /\ ~f.fails /\ ~l.fails /\ ~m.fails /\ ~o.fails
  <2> HIDE DEF a, b, c, d, e, f, g, h, k, l, m, o
  <2> QED
    BY <1>1, <1>2, TwelveChecks
<1> HIDE DEF a, b, c, d, e, f, g, h, k, l, m, o
<1> QED
  BY <1>3, <1>4

(* Unpacking goes on from what was unpacked before.                          *)
LEMMA TakenExists ==
  ASSUME NEW entries, Len(entries) \in Nat, NEW tools
  PROVE  Taken(entries, tools) =
           [n \in 0 .. Len(entries) |->
             IF n = 0 THEN [fault |-> "none", extracted |-> {}, total |-> 0, disk |-> <<>>]
             ELSE TakeEntry(Taken(entries, tools)[n - 1], entries[n], tools)]
<1> DEFINE empty == [fault |-> "none", extracted |-> {}, total |-> 0, disk |-> <<>>]
           Step(f, n) == IF n = 0 THEN empty ELSE TakeEntry(f[n - 1], entries[n], tools)
           S == {n \in Nat : \E f : f = [k \in 0 .. n |-> Step(f, k)]}
<1>1. 0 \in S
  <2>1. [k \in {0} |-> empty] = [k \in 0 .. 0 |-> Step([j \in {0} |-> empty], k)]
    OBVIOUS
  <2> QED
    BY <2>1
<1>2. ASSUME NEW n \in Nat, n \in S PROVE n + 1 \in S
  <2>1. PICK f : f = [k \in 0 .. n |-> Step(f, k)]
    BY <1>2
  <2>4. \A k \in 0 .. n : f[k] = Step(f, k)
    <3> HIDE DEF Step
    <3> QED
      BY <2>1
  <2> DEFINE g == [k \in 0 .. n + 1 |-> IF k = n + 1 THEN TakeEntry(f[n], entries[n + 1], tools) ELSE f[k]]
  <2>2. ASSUME NEW k \in 0 .. n + 1 PROVE g[k] = Step(g, k)
    <3>1. CASE k = n + 1
      <4>1. g[k] = TakeEntry(f[n], entries[n + 1], tools) /\ g[n] = f[n] /\ k - 1 = n /\ k # 0
        BY <3>1
      <4> QED
        BY <3>1, <4>1
    <3>2. CASE k # n + 1
      <4>1. k \in 0 .. n /\ g[k] = f[k] /\ f[k] = Step(f, k)
        BY <2>4, <3>2
      <4>2. k # 0 => g[k - 1] = f[k - 1]
        BY <3>2
      <4> QED
        BY <4>1, <4>2
    <3> QED
      BY <3>1, <3>2
  <2>3. g = [k \in 0 .. n + 1 |-> Step(g, k)]
    BY <2>2
  <2> HIDE DEF g
  <2> QED
    BY <2>3
<1>3. Nat \subseteq S
  <2> HIDE DEF S
  <2> QED
    BY <1>1, <1>2, NatInductionOn
<1>4. \E f : f = [k \in 0 .. Len(entries) |-> Step(f, k)]
  BY <1>3
<1>5. Taken(entries, tools) = CHOOSE f : f = [k \in 0 .. Len(entries) |-> Step(f, k)]
  BY DEF Taken
<1> QED
  BY <1>4, <1>5

LEMMA TakenGrows ==
  ASSUME NEW entries, Len(entries) \in Nat, NEW tools
  PROVE  LET taken == Taken(entries, tools)
         IN  /\ taken[0] = [fault |-> "none", extracted |-> {}, total |-> 0, disk |-> <<>>]
             /\ \A n \in 0 .. Len(entries) - 1 :
                    taken[n + 1] = TakeEntry(taken[n], entries[n + 1], tools)
<1> DEFINE taken == Taken(entries, tools)
           Step(n) == IF n = 0 THEN [fault |-> "none", extracted |-> {}, total |-> 0, disk |-> <<>>]
                      ELSE TakeEntry(taken[n - 1], entries[n], tools)
<1>1. taken = [n \in 0 .. Len(entries) |-> Step(n)]
  BY TakenExists
<1> HIDE DEF taken
<1>2. \A n \in 0 .. Len(entries) : taken[n] = Step(n)
  BY <1>1
<1>3. taken[0] = Step(0)
  BY <1>2
<1>4. ASSUME NEW n \in 0 .. Len(entries) - 1
      PROVE  taken[n + 1] = TakeEntry(taken[n], entries[n + 1], tools)
  <2>1. n + 1 \in 0 .. Len(entries) /\ n + 1 # 0 /\ (n + 1) - 1 = n
    OBVIOUS
  <2> QED
    BY <1>2, <2>1
<1> QED
  BY <1>3, <1>4 DEF taken

LEMMA ExpectedIs ==
  ASSUME NEW tools, DOMAIN tools \subseteq Nat, NEW path, IsExpected(tools, path)
  PROVE  \E i \in DOMAIN tools : tools[i].path.raw = path.raw /\ Expected(tools, path) = tools[i]
<1> DEFINE named == {i \in DOMAIN tools : tools[i].path.raw = path.raw}
<1>1. named \in SUBSET Nat /\ named # {}
  BY DEF IsExpected
<1>2. Min(named) \in named
  BY <1>1, MinIsFirst
<1>3. Expected(tools, path) = tools[Min(named)]
  BY DEF Expected, FirstWith
<1> QED
  BY <1>2, <1>3

(* An entry that is taken is one that the manifest has, as it has it, in a   *)
(* place where nothing is.                                                   *)
LEMMA ZipEntryHolds ==
  ASSUME NEW sofar, NEW entry, NEW tools, ZipEntryFault(sofar, entry, tools) = "none"
  PROVE  /\ IsExpected(tools, entry.path) /\ ~Blocked(sofar.disk, entry.path.file)
         /\ entry.size = Expected(tools, entry.path).size
         /\ entry.digest = Expected(tools, entry.path).digest
<1> DEFINE expected == Expected(tools, entry.path)
           big == sofar.total + entry.size > MaxArchive
<1>1. /\ "unexpected entry" # "none" /\ "unsafe path" # "none" /\ "duplicate path" # "none"
      /\ "size" # "none" /\ "expanded size" # "none" /\ "create" # "none" /\ "digest" # "none"
  OBVIOUS
<1>2. ZipEntryFault(sofar, entry, tools) =
        CASE entry.kind # "file"          -> "unexpected entry"
          [] ~entry.path.safe             -> "unsafe path"
          [] ~IsExpected(tools, entry.path) -> "unexpected entry"
          [] entry.path.raw \in sofar.extracted -> "duplicate path"
          [] entry.size # expected.size -> "size"
          [] big -> "expanded size"
          [] Blocked(sofar.disk, entry.path.file) -> "create"
          [] entry.digest # expected.digest -> "digest"
          [] OTHER -> "none"
  BY Zenon DEF ZipEntryFault
<1> HIDE DEF expected, big
<1>3. /\ IsExpected(tools, entry.path) /\ ~Blocked(sofar.disk, entry.path.file)
      /\ entry.size = expected.size /\ entry.digest = expected.digest
  BY <1>1, <1>2, Zenon
<1> QED
  BY <1>3 DEF expected

(* The file an entry becomes.                                                *)
FileOf(entry) ==
    [entry.content EXCEPT !.size = entry.size, !.digest = entry.digest,
                          !.inside = TRUE, !.executable = TRUE]

LEMMA TakeIs ==
  ASSUME NEW fault, NEW extracted, NEW total, NEW disk, NEW entry, NEW tools, NEW taken,
         NEW sofar,
         sofar = [fault |-> fault, extracted |-> extracted, total |-> total, disk |-> disk],
         taken = TakeEntry(sofar, entry, tools), taken.fault = "none"
  PROVE  /\ fault = "none" /\ ZipEntryFault(sofar, entry, tools) = "none"
         /\ taken = [fault |-> "none", extracted |-> extracted \union {entry.path.raw},
                     total |-> total + entry.size,
                     disk |-> With(disk, entry.path.file, FileOf(entry))]
<1> DEFINE unfit == ZipEntryFault(sofar, entry, tools)
           more == [sofar EXCEPT !.extracted = @ \union {entry.path.raw}, !.total = @ + entry.size,
                                 !.disk = With(@, entry.path.file, FileOf(entry))]
<1>1. taken = IF sofar.fault # "none" THEN sofar
              ELSE IF unfit # "none" THEN [sofar EXCEPT !.fault = unfit]
              ELSE more
  BY Zenon DEF TakeEntry, FileOf
<1> HIDE DEF unfit, more
<1>2. sofar.fault = "none" /\ unfit = "none" /\ taken = more
  BY <1>1
<1> QED
  BY <1>2 DEF unfit, more

(* What has been unpacked without a fault is, entry by entry, what the       *)
(* manifest has.                                                             *)
Unpacked(sofar, n, entries, tools) ==
    /\ sofar = [fault |-> sofar.fault, extracted |-> sofar.extracted, total |-> sofar.total,
                disk |-> sofar.disk]
    /\ sofar.fault = "none" =>
          /\ sofar.extracted = {entries[k].path.raw : k \in 1 .. n}
          /\ \A k \in 1 .. n :
                /\ IsExpected(tools, entries[k].path)
                /\ entries[k].size = Expected(tools, entries[k].path).size
                /\ entries[k].digest = Expected(tools, entries[k].path).digest
                /\ entries[k].path.file \in DOMAIN sofar.disk
                /\ sofar.disk[entries[k].path.file] = FileOf(entries[k])

LEMMA UnpacksEmpty ==
  ASSUME NEW entries, NEW tools
  PROVE  Unpacked([fault |-> "none", extracted |-> {}, total |-> 0, disk |-> <<>>], 0, entries, tools)
BY DEF Unpacked

LEMMA UnpacksOne ==
  ASSUME NEW entries, NEW tools, NEW n \in Nat, NEW sofar, Unpacked(sofar, n, entries, tools)
  PROVE  Unpacked(TakeEntry(sofar, entries[n + 1], tools), n + 1, entries, tools)
<1> DEFINE entry == entries[n + 1]
           taken == TakeEntry(sofar, entry, tools)
<1>1. sofar = [fault |-> sofar.fault, extracted |-> sofar.extracted, total |-> sofar.total,
               disk |-> sofar.disk]
  BY DEF Unpacked
<1>2. taken = [fault |-> taken.fault, extracted |-> taken.extracted, total |-> taken.total,
               disk |-> taken.disk]
  <2> DEFINE unfit == ZipEntryFault(sofar, entry, tools)
             more == [sofar EXCEPT !.extracted = @ \union {entry.path.raw}, !.total = @ + entry.size,
                                   !.disk = With(@, entry.path.file, FileOf(entry))]
             less == [sofar EXCEPT !.fault = unfit]
  <2>1. taken = IF sofar.fault # "none" THEN sofar ELSE IF unfit # "none" THEN less ELSE more
    BY Zenon DEF TakeEntry, FileOf
  <2> HIDE DEF unfit
  <2>2. more = [fault |-> more.fault, extracted |-> more.extracted, total |-> more.total,
                disk |-> more.disk]
    <3> DEFINE extracted == sofar.extracted \union {entry.path.raw}
               total == sofar.total + entry.size
               disk == With(sofar.disk, entry.path.file, FileOf(entry))
    <3>1. more = [sofar EXCEPT !.extracted = extracted, !.total = total, !.disk = disk]
      OBVIOUS
    <3> HIDE DEF more, extracted, total, disk
    <3>2. more = [fault |-> sofar.fault, extracted |-> extracted, total |-> total, disk |-> disk]
      BY <1>1, <3>1
    <3> QED
      BY <3>2
  <2>3. less = [fault |-> less.fault, extracted |-> less.extracted, total |-> less.total,
                disk |-> less.disk]
    BY <1>1
  <2> HIDE DEF taken, more, less
  <2> QED
    BY <1>1, <2>1, <2>2, <2>3
<1>3. ASSUME taken.fault = "none"
      PROVE  /\ taken.extracted = {entries[k].path.raw : k \in 1 .. n + 1}
             /\ \A k \in 1 .. n + 1 :
                   /\ IsExpected(tools, entries[k].path)
                   /\ entries[k].size = Expected(tools, entries[k].path).size
                   /\ entries[k].digest = Expected(tools, entries[k].path).digest
                   /\ entries[k].path.file \in DOMAIN taken.disk
                   /\ taken.disk[entries[k].path.file] = FileOf(entries[k])
  <2>1. /\ sofar.fault = "none" /\ ZipEntryFault(sofar, entry, tools) = "none"
        /\ taken = [fault |-> "none", extracted |-> sofar.extracted \union {entry.path.raw},
                    total |-> sofar.total + entry.size,
                    disk |-> With(sofar.disk, entry.path.file, FileOf(entry))]
    <3>1. taken = TakeEntry(sofar, entry, tools)
      OBVIOUS
    <3> HIDE DEF taken, entry
    <3> QED
      BY <1>1, <1>3, <3>1, TakeIs
  <2> HIDE DEF taken
  <2>2. /\ IsExpected(tools, entry.path) /\ ~Blocked(sofar.disk, entry.path.file)
        /\ entry.size = Expected(tools, entry.path).size
        /\ entry.digest = Expected(tools, entry.path).digest
    BY <2>1, ZipEntryHolds
  <2>3. entry.path.file \notin DOMAIN sofar.disk
    BY <2>2 DEF Blocked
  <2>4. /\ taken.extracted = sofar.extracted \union {entry.path.raw}
        /\ DOMAIN taken.disk = DOMAIN sofar.disk \union {entry.path.file}
        /\ taken.disk[entry.path.file] = FileOf(entry)
        /\ \A f \in DOMAIN sofar.disk : taken.disk[f] = sofar.disk[f]
    BY <2>1, <2>3 DEF With
  <2>5. /\ sofar.extracted = {entries[k].path.raw : k \in 1 .. n}
        /\ \A k \in 1 .. n :
              /\ IsExpected(tools, entries[k].path)
              /\ entries[k].size = Expected(tools, entries[k].path).size
              /\ entries[k].digest = Expected(tools, entries[k].path).digest
              /\ entries[k].path.file \in DOMAIN sofar.disk
              /\ sofar.disk[entries[k].path.file] = FileOf(entries[k])
    BY <2>1 DEF Unpacked
  <2>6. 1 .. n + 1 = 1 .. n \union {n + 1}
    OBVIOUS
  <2>7. taken.extracted = {entries[k].path.raw : k \in 1 .. n + 1}
    BY <2>4, <2>5, <2>6
  <2>8. ASSUME NEW k \in 1 .. n + 1
        PROVE  /\ IsExpected(tools, entries[k].path)
               /\ entries[k].size = Expected(tools, entries[k].path).size
               /\ entries[k].digest = Expected(tools, entries[k].path).digest
               /\ entries[k].path.file \in DOMAIN taken.disk
               /\ taken.disk[entries[k].path.file] = FileOf(entries[k])
    <3>1. CASE k = n + 1
      BY <2>2, <2>4, <3>1
    <3>2. CASE k \in 1 .. n
      BY <2>4, <2>5, <3>2
    <3> QED
      BY <2>6, <3>1, <3>2
  <2> QED
    BY <2>7, <2>8
<1> QED
  BY <1>2, <1>3 DEF Unpacked

LEMMA UnpackedAll ==
  ASSUME NEW entries, Len(entries) \in Nat, NEW tools
  PROVE  Unpacked(Taken(entries, tools)[Len(entries)], Len(entries), entries, tools)
<1> DEFINE taken == Taken(entries, tools)
           S == {n \in Nat : n <= Len(entries) => Unpacked(taken[n], n, entries, tools)}
<1>1. 0 \in S
  BY TakenGrows, UnpacksEmpty
<1>2. ASSUME NEW n \in Nat, n \in S PROVE n + 1 \in S
  <2> SUFFICES ASSUME n + 1 <= Len(entries) PROVE Unpacked(taken[n + 1], n + 1, entries, tools)
    OBVIOUS
  <2>1. n \in 0 .. Len(entries) - 1 /\ Unpacked(taken[n], n, entries, tools)
    BY <1>2
  <2>2. taken[n + 1] = TakeEntry(taken[n], entries[n + 1], tools)
    BY <2>1, TakenGrows
  <2> HIDE DEF taken
  <2> QED
    BY <2>1, <2>2, UnpacksOne
<1> HIDE DEF S
<1>3. Nat \subseteq S
  BY <1>1, <1>2, NatInductionOn
<1> QED
  BY <1>3 DEF S

LEMMA ContentIs ==
  ASSUME NEW digest
  PROVE  DOMAIN ContentOf(digest) = {"digest", "size", "inside", "executable", "runs", "says",
                                     "version", "document"}
<1> DEFINE fields == {"digest", "size", "inside", "executable", "runs", "says", "version", "document"}
<1>1. \A tool, version : DOMAIN Program(tool, version) = fields
  BY DEF Program
<1>2. \A tool, version : DOMAIN [Program(tool, version) EXCEPT !.digest = digest, !.runs = FALSE] = fields
  BY <1>1
<1> DEFINE known == CHOOSE pair \in ToolNames \X {"old", "new"} : digest = DigestFor(pair[1], pair[2])
<1>3. \/ ContentOf(digest) = Program(known[1], known[2])
      \/ ContentOf(digest) = [Program("ytdlp", "old") EXCEPT !.digest = digest, !.runs = FALSE]
  BY Zenon DEF ContentOf
<1> HIDE DEF known, fields
<1> QED
  BY <1>1, <1>2, <1>3 DEF fields

(* A delivery in which a text names one path, the text of a path tells its   *)
(* key, and what has the digest of a signed tool is that tool.               *)
Genuine(update) ==
    LET tools   == update.manifest.tools
        entries == update.package.entries
    IN  /\ Len(entries) \in Nat
        /\ Len(tools) \in Nat /\ DOMAIN tools = 1 .. Len(tools)
        /\ update.manifest.minimum \in Int /\ update.manifest.release \in Int
        /\ \A i, j \in DOMAIN tools :
              tools[i].path.raw = tools[j].path.raw => tools[i].path = tools[j].path
        /\ \A i \in DOMAIN tools, k \in 1 .. Len(entries) :
              /\ entries[k].path.raw = tools[i].path.raw => entries[k].path = tools[i].path
              /\ entries[k].digest = tools[i].digest =>
                    entries[k].content = ContentOf(tools[i].digest)

(* What is unpacked without a fault has every tool of the manifest, in its   *)
(* place and with what was signed for it.                                    *)
LEMMA EveryToolIsUnpacked ==
  ASSUME NEW update, Genuine(update),
         ManifestFault(update.manifest, Target) = "none",
         Extract(update.package, update.manifest.tools).fault = "none"
  PROVE  LET tools == update.manifest.tools
             disk == Extract(update.package, tools).disk
         IN  \A i \in DOMAIN tools :
               /\ tools[i].path.file \in DOMAIN disk
               /\ LET file == disk[tools[i].path.file]
                      content == ContentOf(tools[i].digest)
                  IN  /\ file.size = tools[i].size /\ file.digest = tools[i].digest
                      /\ file.inside /\ file.executable
                      /\ file.runs = content.runs /\ file.says = content.says
                      /\ file.version = content.version
<1> DEFINE tools == update.manifest.tools
           entries == update.package.entries
           taken == Taken(entries, tools)[Len(entries)]
           signed == {tools[i].path.raw : i \in DOMAIN tools}
           whole == Extract(update.package, tools)
<1>1. whole = IF taken.fault = "none" /\ Cardinality(taken.extracted) # Cardinality(signed)
              THEN [taken EXCEPT !.fault = "incomplete archive"] ELSE taken
  BY Zenon DEF Extract
<1>2. /\ Len(entries) \in Nat /\ DOMAIN tools \subseteq Nat /\ IsFiniteSet(DOMAIN tools)
      /\ \A i, j \in DOMAIN tools :
            tools[i].path.raw = tools[j].path.raw => tools[i].path = tools[j].path
      /\ \A i \in DOMAIN tools, k \in 1 .. Len(entries) :
            /\ entries[k].path.raw = tools[i].path.raw => entries[k].path = tools[i].path
            /\ entries[k].digest = tools[i].digest => entries[k].content = ContentOf(tools[i].digest)
  <2>1. Len(tools) \in Nat /\ DOMAIN tools = 1 .. Len(tools)
    BY DEF Genuine
  <2>2. DOMAIN tools \subseteq Nat /\ IsFiniteSet(DOMAIN tools)
    <3> HIDE DEF tools
    <3>1. 1 \in Int /\ Len(tools) \in Int
      BY <2>1
    <3> QED
      BY <2>1, <3>1, FS_Interval
  <2> QED
    BY <2>2, Zenon DEF Genuine
<1>3. Unpacked(taken, Len(entries), entries, tools)
  BY <1>2, UnpackedAll
<1>4. \A i, j \in DOMAIN tools : tools[i].path.key = tools[j].path.key => i = j
  <2>1. ~ \E i, j \in DOMAIN tools : i < j /\ tools[i].path.key = tools[j].path.key
    BY SoundManifest
  <2> HIDE DEF tools
  <2> QED
    BY <1>2, <2>1
<1> HIDE DEF taken, tools, entries
<1>5. whole = taken /\ taken.fault = "none" /\ Cardinality(taken.extracted) = Cardinality(signed)
  <2>1. whole.fault = "none"
    BY DEF tools
  <2>2. DOMAIN taken = {"fault", "extracted", "total", "disk"}
    BY <1>3 DEF Unpacked
  <2>3. [taken EXCEPT !.fault = "incomplete archive"].fault = "incomplete archive"
    BY <2>2
  <2>4. "incomplete archive" # "none"
    OBVIOUS
  <2> HIDE DEF whole, signed
  <2> QED
    BY <1>1, <2>1, <2>3, <2>4, Zenon
<1>6. /\ taken.extracted = {entries[k].path.raw : k \in 1 .. Len(entries)}
      /\ \A k \in 1 .. Len(entries) :
            /\ IsExpected(tools, entries[k].path)
            /\ entries[k].size = Expected(tools, entries[k].path).size
            /\ entries[k].digest = Expected(tools, entries[k].path).digest
            /\ entries[k].path.file \in DOMAIN taken.disk
            /\ taken.disk[entries[k].path.file] = FileOf(entries[k])
  BY <1>3, <1>5 DEF Unpacked
<1>7. taken.extracted = signed
  <2>1. taken.extracted \subseteq signed
    BY <1>6 DEF IsExpected
  <2>2. IsFiniteSet(signed)
    <3> DEFINE f == [i \in DOMAIN tools |-> tools[i].path.raw]
    <3>1. f \in Surjection(DOMAIN tools, signed)
      BY DEF Surjection
    <3> HIDE DEF f, signed
    <3> QED
      BY <1>2, <3>1, FS_Surjection
  <2> HIDE DEF signed
  <2> QED
    BY <1>5, <2>1, <2>2, FS_Subset
<1>8. ASSUME NEW i \in DOMAIN tools
      PROVE  /\ tools[i].path.file \in DOMAIN taken.disk
             /\ LET file == taken.disk[tools[i].path.file]
                    content == ContentOf(tools[i].digest)
                IN  /\ file.size = tools[i].size /\ file.digest = tools[i].digest
                    /\ file.inside /\ file.executable
                    /\ file.runs = content.runs /\ file.says = content.says
                    /\ file.version = content.version
  <2>1. PICK k \in 1 .. Len(entries) : entries[k].path.raw = tools[i].path.raw
    <3>1. tools[i].path.raw \in taken.extracted
      BY <1>7
    <3> QED
      BY <1>6, <3>1
  <2>2. entries[k].path = tools[i].path
    BY <1>2, <2>1
  <2>3. PICK j \in DOMAIN tools : /\ tools[j].path.raw = entries[k].path.raw
                                  /\ Expected(tools, entries[k].path) = tools[j]
    BY <1>2, <1>6, ExpectedIs
  <2>4. j = i
    BY <1>2, <1>4, <2>1, <2>3
  <2>5. entries[k].size = tools[i].size /\ entries[k].digest = tools[i].digest
    BY <1>6, <2>3, <2>4
  <2>6. entries[k].content = ContentOf(tools[i].digest)
    BY <1>2, <2>5
  <2>7. /\ tools[i].path.file \in DOMAIN taken.disk
        /\ taken.disk[tools[i].path.file] = FileOf(entries[k])
    BY <1>6, <2>2
  <2> QED
    BY <2>5, <2>6, <2>7, ContentIs DEF FileOf
<1>9. whole.disk = taken.disk
  BY <1>5
<1> HIDE DEF whole
<1> QED
  BY <1>8, <1>9, Zenon DEF tools, whole

(* What was staged verifies, when each signed digest is that of its tool.    *)
LEMMA StagedVerifies ==
  ASSUME NEW update, Genuine(update),
         ManifestFault(update.manifest, Target) = "none",
         Stage(update.package, update.manifest).fault = "none",
         Truthful(update.manifest.tools)
  PROVE  LET staged == Stage(update.package, update.manifest)
             set    == VerifyEntries(Target, staged.disk, VerificationEntries(update.manifest))
         IN  /\ set.fault = "none" /\ DOMAIN set.paths = ToolNames
             /\ \A t \in ToolNames : staged.disk[set.paths[t]].says = t
             /\ DOMAIN staged.disk \intersect ReservedFiles = {}
<1> DEFINE manifest == update.manifest
           tools == manifest.tools
           staged == Stage(update.package, manifest)
           unpacked == Extract(update.package, tools)
           entries == VerificationEntries(manifest)
           disk == unpacked.disk
           set == VerifyEntries(Target, staged.disk, entries)
<1>1. /\ unpacked.fault = "none" /\ staged.disk = disk
      /\ ~ \E f \in ReservedFiles : Blocked(disk, f)
  <2> DEFINE file == ArchiveFileFault(update.package, manifest.archive)
             taken == \E f \in ReservedFiles : Blocked(disk, f)
             whole == [fault |-> "none", disk |-> disk]
  <2>1. staged = CASE file # "none"            -> [fault |-> file, disk |-> <<>>]
                   [] unpacked.fault # "none"  -> [fault |-> unpacked.fault, disk |-> <<>>]
                   [] taken -> [fault |-> "write manifest", disk |-> disk]
                   [] OTHER -> whole
    BY Zenon DEF Stage
  <2>2. \A f, d : [fault |-> f, disk |-> d].fault = f /\ [fault |-> f, disk |-> d].disk = d
    OBVIOUS
  <2>3. "write manifest" # "none" /\ staged.fault = "none"
    OBVIOUS
  <2> HIDE DEF file, taken, staged, disk, unpacked, whole
  <2>4. unpacked.fault = "none" /\ ~taken /\ staged = whole
    BY <2>1, <2>2, <2>3, Zenon
  <2> QED
    BY <2>2, <2>4 DEF taken, whole
<1>2. \A i \in DOMAIN tools :
         /\ tools[i].path.file \in DOMAIN disk
         /\ LET file == disk[tools[i].path.file]
                content == ContentOf(tools[i].digest)
            IN  /\ file.size = tools[i].size /\ file.digest = tools[i].digest
                /\ file.inside /\ file.executable
                /\ file.runs = content.runs /\ file.says = content.says
                /\ file.version = content.version
  <2>1. Extract(update.package, update.manifest.tools).fault = "none"
    BY <1>1
  <2> QED
    BY <2>1, EveryToolIsUnpacked, Zenon
<1>3. /\ DOMAIN tools \subseteq Nat
      /\ ~Repeated(tools)
      /\ {tools[i].tool : i \in DOMAIN tools} = ToolNames
  BY SoundManifest DEF Genuine
<1>4. \A i \in DOMAIN tools : /\ ContentOf(tools[i].digest).runs
                              /\ ContentOf(tools[i].digest).says = tools[i].tool
                              /\ ContentOf(tools[i].digest).version = tools[i].version
  BY Zenon DEF Truthful
<1>5. /\ DOMAIN entries = DOMAIN tools
      /\ \A i \in DOMAIN tools :
            /\ entries[i].tool = tools[i].tool /\ entries[i].version = tools[i].version
            /\ entries[i].file = tools[i].path.file /\ entries[i].size = tools[i].size
            /\ entries[i].digest = tools[i].digest
  BY DEF VerificationEntries
<1> HIDE DEF tools, unpacked, disk, entries
<1>6. \A i \in DOMAIN entries : EntryIs(disk, entries[i])
  <2> SUFFICES ASSUME NEW i \in DOMAIN tools PROVE EntryIs(disk, entries[i])
    BY <1>5
  <2>1. FileAt(disk, entries[i].file) = disk[tools[i].path.file]
    BY <1>2, <1>5 DEF FileAt
  <2>2. disk[tools[i].path.file] # NoFile
    BY <1>2 DEF NoFile
  <2> QED
    BY <1>2, <1>4, <1>5, <2>1, <2>2 DEF EntryIs
<1>7. \A i \in DOMAIN entries : ~ \E j \in 1 .. i - 1 : entries[j].tool = entries[i].tool
  <2> SUFFICES ASSUME NEW i \in DOMAIN tools, NEW j \in 1 .. i - 1, entries[j].tool = entries[i].tool
               PROVE  FALSE
    BY <1>5
  <2>1. j < i
    BY <1>3
  <2>2. j \in DOMAIN tools
    <3>1. i \in 1 .. Len(tools) /\ DOMAIN tools = 1 .. Len(tools)
      BY DEF Genuine, tools
    <3> QED
      BY <3>1
  <2> QED
    BY <1>3, <1>5, <2>1, <2>2 DEF Repeated
<1>8. EntriesFault(disk, entries) = "none"
  BY <1>3, <1>5, <1>6, <1>7, EntriesHold
<1>9. DOMAIN ByTool(entries) = ToolNames
  BY <1>3, <1>5 DEF ByTool
<1>10. set = VerifiedSet(Target, PathsOf(entries))
  <2> HIDE DEF set
  <2>1. set = VerifyEntries(Target, disk, entries)
    BY <1>1 DEF set
  <2> QED
    BY <2>1, <1>8, <1>9, Zenon DEF VerifyEntries
<1>11. set.fault = "none" /\ set.paths = PathsOf(entries)
  BY <1>10 DEF VerifiedSet
<1>12. DOMAIN set.paths = ToolNames
  BY <1>9, <1>11 DEF PathsOf
<1>13. ASSUME NEW t \in ToolNames PROVE disk[set.paths[t]].says = t
  <2>1. t \in DOMAIN PathsOf(entries)
    BY <1>11, <1>12
  <2>2. PICK i \in DOMAIN entries : entries[i].tool = t /\ PathsOf(entries)[t] = entries[i].file
    BY <2>1, PathsFollow
  <2> QED
    BY <1>2, <1>4, <1>5, <1>11, <2>2
<1>14. DOMAIN disk \intersect ReservedFiles = {}
  BY <1>1 DEF Blocked
<1> HIDE DEF set
<1>15. \A t \in ToolNames : staged.disk[set.paths[t]].says = t
  BY <1>1, <1>13
<1>16. DOMAIN staged.disk \intersect ReservedFiles = {}
  BY <1>1, <1>14
<1> QED
  BY <1>11, <1>12, <1>15, <1>16, Zenon DEF set, entries, tools

(* An install that is accepted passed every check.                           *)
LEMMA InstallPassed ==
  ASSUME NEW update, NEW target, InstallFault(update, target) = "none"
  PROVE  /\ ManifestFault(update.manifest, target) = "none"
         /\ Stage(update.package, update.manifest).fault = "none"
         /\ VerifyEntries(target, Stage(update.package, update.manifest).disk,
                          VerificationEntries(update.manifest)).fault = "none"
BY Zenon DEF InstallFault

(* An update that is accepted is the set that was signed: whatever its       *)
(* archive holds, in whatever order and under whatever names, the tools that *)
(* are verified afterwards are those of the manifest, each in a place of its *)
(* own, and nothing has taken the place of the manifest or of the signature  *)
(* (update.rs:303, :543, :824, :894).  In what is delivered a text names one *)
(* path and a digest one content.                                            *)
THEOREM AcceptedUpdateIsTheSignedOne ==
  ASSUME probe.about = "update" => Genuine(probe.update)
  PROVE  AcceptedUpdateVerifies
<1> DEFINE update == probe.update
           manifest == update.manifest
           staged == Stage(update.package, manifest)
           entries == VerificationEntries(manifest)
           set == VerifyEntries(Target, staged.disk, entries)
<1> SUFFICES ASSUME probe.about = "update" PROVE AcceptedUpdateVerifies
  BY DEF AcceptedUpdateVerifies
<1>1. ASSUME ManifestFault(manifest, Target) = "none", staged.fault = "none",
             Truthful(manifest.tools)
      PROVE  /\ set.fault = "none" /\ DOMAIN set.paths = ToolNames
             /\ \A s, t \in ToolNames :
                   /\ staged.disk[set.paths[t]].says = t
                   /\ s # t => set.paths[s] # set.paths[t]
             /\ DOMAIN staged.disk \intersect ReservedFiles = {}
  <2>1. /\ set.fault = "none" /\ DOMAIN set.paths = ToolNames
        /\ \A t \in ToolNames : staged.disk[set.paths[t]].says = t
        /\ DOMAIN staged.disk \intersect ReservedFiles = {}
    BY <1>1, StagedVerifies, Zenon
  <2> HIDE DEF set, staged
  <2> QED
    BY <2>1
<1>2. ASSUME InstallFault(update, Target) = "none"
      PROVE  /\ set.fault = "none" /\ DOMAIN set.paths = ToolNames
             /\ manifest.target = Target /\ AppVersion >= manifest.minimum
             /\ manifest.release >= manifest.minimum
  <2>1. ManifestFault(manifest, Target) = "none" /\ set.fault = "none"
    BY <1>2, InstallPassed, Zenon
  <2>2. DOMAIN entries \subseteq Nat
    <3>1. DOMAIN entries = DOMAIN manifest.tools
      BY DEF VerificationEntries
    <3>2. Len(manifest.tools) \in Nat /\ DOMAIN manifest.tools = 1 .. Len(manifest.tools)
      BY DEF Genuine
    <3> HIDE DEF entries, manifest
    <3> QED
      BY <3>1, <3>2
  <2>3. DOMAIN set.paths = ToolNames
    BY <2>1, <2>2, VerifiedEntries
  <2>4. /\ manifest.target = Target
        /\ ~(AppVersion < manifest.minimum) /\ ~(manifest.release < manifest.minimum)
    BY <2>1, SoundManifest
  <2>5. AppVersion \in Nat /\ manifest.minimum \in Int /\ manifest.release \in Int
    BY UpdateAssumption DEF Genuine
  <2> HIDE DEF set, manifest
  <2> QED
    BY <2>1, <2>3, <2>4, <2>5
<1> HIDE DEF update, manifest, staged, entries, set
<1> QED
  BY <1>1, <1>2, Zenon DEF AcceptedUpdateVerifies, update, manifest, staged, entries, set

-----------------------------------------------------------------------------
(* Names.                                                                    *)

(* The kinds of characters.                                                  *)
Kinds == STRING \union Characters

LEMMA KindsAre ==
  /\ Space \in Kinds /\ "." \in Kinds /\ "/" \in Kinds /\ "w" \in Kinds
  /\ Space # "." /\ Space # "/" /\ Space # "w"
BY Zenon DEF Kinds, Characters, Space

LEMMA TextsAre ==
  ASSUME NEW text \in Seq(STRING)
  PROVE  text \in Seq(Kinds)
<1>1. STRING \subseteq Kinds
  BY Zenon DEF Kinds
<1> QED
  BY <1>1, SeqMonotonic

LEMMA Greatest ==
  ASSUME NEW n \in Nat, NEW S \in SUBSET (1 .. n), S # {}
  PROVE  \E m \in S : \A k \in S : k <= m
<1> DEFINE T == {n - k : k \in S}
<1>1. T \in SUBSET Nat /\ T # {}
  <2>1. \A k \in S : n - k \in Nat
    OBVIOUS
  <2>2. PICK k \in S : TRUE
    OBVIOUS
  <2>3. n - k \in T
    OBVIOUS
  <2> QED
    BY <2>1, <2>3
<1>2. PICK d \in T : \A e \in T : d <= e
  BY <1>1, Least
<1>3. PICK m \in S : d = n - m
  OBVIOUS
<1>4. \A k \in S : n - m <= n - k
  BY <1>2, <1>3
<1> QED
  BY <1>4

LEMMA AppendIs ==
  ASSUME NEW S, NEW text \in Seq(S), NEW c \in S
  PROVE  /\ Append(text, c) \in Seq(S) /\ Append(text, c) # <<>>
         /\ Len(Append(text, c)) = Len(text) + 1 /\ DOMAIN Append(text, c) = 1 .. Len(text) + 1
         /\ Append(text, c)[Len(text) + 1] = c
         /\ \A i \in 1 .. Len(text) : Append(text, c)[i] = text[i]
<1> DEFINE longer == Append(text, c)
<1>1. longer \in Seq(S) /\ longer # <<>> /\ Len(longer) = Len(text) + 1
  BY AppendProperties
<1>2. longer[Len(text) + 1] = c
  BY AppendProperties
<1>3. \A i \in 1 .. Len(text) : longer[i] = text[i]
  BY AppendProperties
<1> HIDE DEF longer
<1>4. DOMAIN longer = 1 .. Len(text) + 1
  BY <1>1, LenProperties
<1> QED
  BY <1>1, <1>2, <1>3, <1>4 DEF longer

LEMMA WideIs ==
  ASSUME NEW text \in Seq(Kinds)
  PROVE  /\ Wide(text) \subseteq 1 .. Len(text) /\ IsFiniteSet(Wide(text))
         /\ Cardinality(Wide(text)) \in Nat
<1>1. Wide(text) \subseteq 1 .. Len(text)
  BY DEF Wide
<1>2. 1 \in Int /\ Len(text) \in Int
  OBVIOUS
<1>3. IsFiniteSet(1 .. Len(text))
  BY <1>2, FS_Interval
<1>4. IsFiniteSet(Wide(text))
  BY <1>1, <1>3, FS_Subset
<1> QED
  BY <1>1, <1>4, FS_CardinalityType

LEMMA BytesAre ==
  ASSUME NEW text \in Seq(Kinds)
  PROVE  Bytes(text) \in Nat /\ Bytes(text) >= Len(text)
<1> DEFINE k == Cardinality(Wide(text))
           w == WideBytes - 1
<1>1. k \in Nat /\ w \in Nat /\ Len(text) \in Nat
  BY WideIs, NamesAssumption
<1>2. Bytes(text) = Len(text) + w * k
  BY DEF Bytes
<1> HIDE DEF k, w
<1>3. w * k \in Nat
  BY <1>1
<1> QED
  BY <1>1, <1>2, <1>3

LEMMA BytesOfOne ==
  ASSUME NEW c \in Kinds
  PROVE  Bytes(<<c>>) = IF c = "w" THEN WideBytes ELSE 1
<1>1. CASE c = "w"
  <2>1. Wide(<<c>>) = {1}
    BY <1>1 DEF Wide
  <2>2. Cardinality(Wide(<<c>>)) = 1
    BY <2>1, FS_Singleton
  <2> QED
    BY <1>1, <2>2, NamesAssumption DEF Bytes
<1>2. CASE c # "w"
  <2>1. Wide(<<c>>) = {}
    BY <1>2 DEF Wide
  <2>2. Cardinality(Wide(<<c>>)) = 0
    BY <2>1, FS_EmptySet
  <2> QED
    BY <1>2, <2>2, NamesAssumption DEF Bytes
<1> QED
  BY <1>1, <1>2

LEMMA BytesGrow ==
  ASSUME NEW text \in Seq(Kinds), NEW c \in Kinds
  PROVE  Bytes(Append(text, c)) = Bytes(text) + Bytes(<<c>>)
<1> DEFINE longer == Append(text, c)
           n == Len(text) + 1
           k == Cardinality(Wide(text))
           w == WideBytes - 1
<1>1. /\ Len(longer) = n /\ DOMAIN longer = 1 .. n /\ longer[n] = c
      /\ \A i \in 1 .. Len(text) : longer[i] = text[i]
  BY AppendIs
<1>2. /\ Wide(text) \subseteq 1 .. Len(text) /\ IsFiniteSet(Wide(text)) /\ k \in Nat
      /\ w \in Nat /\ Len(text) \in Nat
  BY WideIs, NamesAssumption
<1>3. n \notin Wide(text)
  BY <1>2
<1>4. CASE c = "w"
  <2>1. Wide(longer) = Wide(text) \union {n}
    BY <1>1, <1>4 DEF Wide
  <2>2. Cardinality(Wide(longer)) = k + 1
    BY <1>2, <1>3, <2>1, FS_AddElement
  <2>3. Bytes(longer) = n + w * (k + 1)
    BY <1>1, <2>2 DEF Bytes
  <2>4. Bytes(text) = Len(text) + w * k
    BY DEF Bytes
  <2>5. Bytes(<<c>>) = w + 1
    BY <1>4, BytesOfOne, NamesAssumption
  <2> HIDE DEF k, w, longer
  <2>6. w * (k + 1) = w * k + w /\ w * k \in Nat
    BY <1>2
  <2> QED
    BY <1>2, <2>3, <2>4, <2>5, <2>6 DEF longer
<1>5. CASE c # "w"
  <2>1. Wide(longer) = Wide(text)
    BY <1>1, <1>5 DEF Wide
  <2>2. Bytes(longer) = n + w * k
    BY <1>1, <2>1 DEF Bytes
  <2>3. Bytes(text) = Len(text) + w * k
    BY DEF Bytes
  <2>4. Bytes(<<c>>) = 1
    BY <1>5, BytesOfOne
  <2> HIDE DEF k, w, longer
  <2>5. w * k \in Nat
    BY <1>2
  <2> QED
    BY <1>2, <2>2, <2>3, <2>4, <2>5 DEF longer
<1> QED
  BY <1>4, <1>5

(* The beginning of a text is no longer than the text.                       *)
LEMMA BytesOfStart ==
  ASSUME NEW text \in Seq(Kinds), NEW n \in 0 .. Len(text)
  PROVE  /\ SubSeq(text, 1, n) \in Seq(Kinds) /\ Len(SubSeq(text, 1, n)) = n
         /\ \A i \in 1 .. n : SubSeq(text, 1, n)[i] = text[i]
         /\ Bytes(SubSeq(text, 1, n)) <= Bytes(text)
<1> DEFINE start == SubSeq(text, 1, n)
           j == Cardinality(Wide(start))
           k == Cardinality(Wide(text))
           w == WideBytes - 1
<1>1. /\ start \in Seq(Kinds) /\ Len(start) = n
      /\ \A i \in 1 .. n : start[i] = text[i]
  BY SubSeqProperties
<1> HIDE DEF start
<1>2. Wide(start) \subseteq Wide(text)
  BY <1>1 DEF Wide
<1>3. j <= k /\ j \in Nat /\ k \in Nat /\ w \in Nat
  <2>1. IsFiniteSet(Wide(text)) /\ k \in Nat
    BY WideIs
  <2>2. j \in Nat
    BY <1>1, WideIs
  <2> QED
    BY <1>2, <2>1, <2>2, FS_Subset, NamesAssumption
<1>4. Bytes(start) = n + w * j /\ Bytes(text) = Len(text) + w * k
  BY <1>1 DEF Bytes
<1> HIDE DEF j, k, w
<1>5. w * j <= w * k /\ w * j \in Nat /\ w * k \in Nat
  <2>1. PICK d \in Nat : k = j + d
    <3>1. k - j \in Nat /\ k = j + (k - j)
      BY <1>3
    <3> QED
      BY <3>1
  <2>2. w * k = w * j + w * d /\ w * d \in Nat /\ w * j \in Nat
    BY <1>3, <2>1
  <2> QED
    BY <2>2
<1> QED
  BY <1>1, <1>4, <1>5 DEF start

(* A text that has no character a name may not have, does not begin with a   *)
(* space and has no two together.                                            *)
Clean(text) ==
    /\ text \in Seq(Kinds)
    /\ \A i \in 1 .. Len(text) : text[i] # "/"
    /\ Len(text) > 0 => text[1] # Space
    /\ \A i \in 1 .. Len(text) - 1 : text[i] = Space => text[i + 1] # Space

Fits(text) == Len(text) <= MaxChars /\ Bytes(text) <= MaxBytes

(* While a name grows; it may end in a space once it is full.                *)
Growing(r) ==
    /\ r = [text |-> r.text, gap |-> r.gap, full |-> r.full]
    /\ Clean(r.text)
    /\ ~r.full => /\ Fits(r.text)
                  /\ Len(r.text) > 0 => r.text[Len(r.text)] # Space
                  /\ r.gap => Len(r.text) > 0
    /\ r.full => \/ Fits(r.text)
                 \/ /\ Len(r.text) > 0 /\ r.text[Len(r.text)] = Space
                    /\ Fits(SubSeq(r.text, 1, Len(r.text) - 1))

LEMMA FrontOfAppend ==
  ASSUME NEW S, NEW text \in Seq(S), NEW c \in S
  PROVE  SubSeq(Append(text, c), 1, Len(text)) = text
<1> DEFINE longer == Append(text, c)
           front == SubSeq(longer, 1, Len(text))
<1>1. /\ longer \in Seq(S) /\ Len(longer) = Len(text) + 1
      /\ \A i \in 1 .. Len(text) : longer[i] = text[i]
  BY AppendIs
<1> HIDE DEF longer
<1>2. \A i \in 1 .. Len(text) : longer[i] \in S
  BY <1>1, ElementOfSeq
<1>3. Len(text) \in Nat /\ 1 \in Int
  OBVIOUS
<1>4. /\ front \in Seq(S) /\ Len(front) = IF 1 <= Len(text) THEN Len(text) - 1 + 1 ELSE 0
      /\ \A i \in 1 .. Len(text) - 1 + 1 : front[i] = longer[1 + i - 1]
  BY <1>2, <1>3, SubSeqProperties
<1> HIDE DEF front
<1>5. Len(front) = Len(text) /\ \A i \in 1 .. Len(text) : front[i] = text[i]
  BY <1>1, <1>3, <1>4
<1>6. front = text
  BY <1>4, <1>5, SeqEqual
<1> QED
  BY <1>6 DEF front, longer

LEMMA CleanGrows ==
  ASSUME NEW text, Clean(text), NEW c \in Kinds, c # "/",
         c = Space => Len(text) > 0 /\ text[Len(text)] # Space
  PROVE  Clean(Append(text, c))
<1> DEFINE longer == Append(text, c)
<1>1. text \in Seq(Kinds) /\ Len(text) \in Nat
  BY DEF Clean
<1>2. /\ longer \in Seq(Kinds) /\ Len(longer) = Len(text) + 1 /\ longer[Len(text) + 1] = c
      /\ \A i \in 1 .. Len(text) : longer[i] = text[i]
  BY <1>1, AppendIs
<1> HIDE DEF longer
<1>3. \A i \in 1 .. Len(longer) : longer[i] # "/"
  BY <1>1, <1>2 DEF Clean
<1>4. longer[1] # Space
  <2>1. CASE Len(text) = 0
    BY <1>1, <1>2, <2>1
  <2>2. CASE Len(text) > 0
    BY <1>1, <1>2, <2>2 DEF Clean
  <2> QED
    BY <1>1, <2>1, <2>2
<1>5. ASSUME NEW i \in 1 .. Len(longer) - 1, longer[i] = Space PROVE longer[i + 1] # Space
  <2>1. CASE i = Len(text)
    BY <1>1, <1>2, <1>5, <2>1
  <2>2. CASE i # Len(text)
    <3>1. i \in 1 .. Len(text) - 1 /\ i \in 1 .. Len(text) /\ i + 1 \in 1 .. Len(text)
      BY <1>1, <1>2, <2>2
    <3>2. text[i] = Space => text[i + 1] # Space
      BY <3>1 DEF Clean
    <3> QED
      BY <1>2, <1>5, <3>1, <3>2
  <2> QED
    BY <2>1, <2>2
<1>6. Clean(longer)
  BY <1>2, <1>3, <1>4, <1>5 DEF Clean
<1> QED
  BY <1>6 DEF longer

LEMMA EmptyGrows == Growing([text |-> <<>>, gap |-> FALSE, full |-> FALSE])
<1>1. Clean(<<>>)
  BY DEF Clean
<1>2. Fits(<<>>)
  <2>1. Wide(<<>>) = {}
    BY DEF Wide
  <2>2. Bytes(<<>>) = 0
    <3>1. Cardinality(Wide(<<>>)) = 0
      BY <2>1, FS_EmptySet
    <3> QED
      BY <3>1, NamesAssumption DEF Bytes
  <2> QED
    BY <2>2, NamesAssumption DEF Fits
<1> QED
  BY <1>1, <1>2 DEF Growing

LEMMA NameGrows ==
  ASSUME NEW r, Growing(r), NEW c \in Kinds
  PROVE  Growing(TakeCharacter(r, c))
<1> DEFINE text == IF r.gap THEN Append(r.text, Space) ELSE r.text
           paused == [r EXCEPT !.gap = r.text # <<>>]
           filled == [text |-> text, gap |-> FALSE, full |-> TRUE]
           grown == [text |-> Append(text, c), gap |-> FALSE, full |-> FALSE]
           much == Len(text) >= MaxChars \/ Bytes(text) + Bytes(<<c>>) > MaxBytes
<1>1. TakeCharacter(r, c) = IF r.full THEN r ELSE IF IsGap(c) THEN paused
                            ELSE IF much THEN filled ELSE grown
  BY DEF TakeCharacter
<1>2. /\ r = [text |-> r.text, gap |-> r.gap, full |-> r.full]
      /\ Clean(r.text) /\ r.text \in Seq(Kinds) /\ Len(r.text) \in Nat
  BY DEF Growing, Clean
<1>3. ASSUME ~r.full, IsGap(c) PROVE Growing(paused)
  <2>1. paused = [text |-> r.text, gap |-> r.text # <<>>, full |-> r.full]
    BY <1>2
  <2>2. r.text # <<>> <=> Len(r.text) > 0
    BY <1>2
  <2> HIDE DEF paused
  <2> QED
    BY <1>2, <1>3, <2>1, <2>2 DEF Growing
<1>4. ASSUME ~r.full, ~IsGap(c)
      PROVE  /\ Clean(text) /\ text \in Seq(Kinds) /\ c # "/" /\ c # Space
             /\ Fits(text) \/ (Len(text) > 0 /\ text[Len(text)] = Space
                               /\ Fits(SubSeq(text, 1, Len(text) - 1)))
  <2>1. c # "/" /\ c # Space
    BY <1>4 DEF IsGap
  <2>2. Fits(r.text)
    BY <1>4 DEF Growing
  <2>3. CASE r.gap
    <3>1. Len(r.text) > 0 /\ r.text[Len(r.text)] # Space
      BY <1>4, <2>3 DEF Growing
    <3>2. Clean(Append(r.text, Space))
      BY <1>2, <3>1, CleanGrows, KindsAre
    <3>3. /\ Append(r.text, Space) \in Seq(Kinds)
          /\ Len(Append(r.text, Space)) = Len(r.text) + 1
          /\ Append(r.text, Space)[Len(r.text) + 1] = Space
      BY <1>2, KindsAre, AppendIs
    <3>4. SubSeq(Append(r.text, Space), 1, Len(r.text)) = r.text
      BY <1>2, KindsAre, FrontOfAppend
    <3>5. text = Append(r.text, Space)
      BY <2>3
    <3> HIDE DEF text
    <3>6. Len(text) = Len(r.text) + 1 /\ Len(text) - 1 = Len(r.text)
      BY <1>2, <3>3, <3>5
    <3>7. Fits(SubSeq(text, 1, Len(text) - 1))
      BY <2>2, <3>4, <3>5, <3>6
    <3> QED
      BY <1>2, <2>1, <3>2, <3>3, <3>5, <3>6, <3>7
  <2>4. CASE ~r.gap
    BY <1>2, <2>1, <2>2, <2>4
  <2> QED
    BY <2>3, <2>4
<1>5. ASSUME ~r.full, ~IsGap(c) PROVE Growing(filled)
  <2>1. /\ Clean(text)
        /\ Fits(text) \/ (Len(text) > 0 /\ text[Len(text)] = Space
                          /\ Fits(SubSeq(text, 1, Len(text) - 1)))
    BY <1>4, <1>5
  <2> HIDE DEF text
  <2> QED
    BY <2>1 DEF Growing
<1>6. ASSUME ~r.full, ~IsGap(c), ~much PROVE Growing(grown)
  <2>1. /\ Clean(text) /\ text \in Seq(Kinds) /\ c # "/" /\ c # Space
    BY <1>4, <1>6
  <2>2. ~(Len(text) >= MaxChars) /\ ~(Bytes(text) + Bytes(<<c>>) > MaxBytes)
    BY <1>6
  <2> HIDE DEF text
  <2>3. Clean(Append(text, c))
    BY <2>1, CleanGrows
  <2>4. /\ Len(Append(text, c)) = Len(text) + 1 /\ Append(text, c)[Len(text) + 1] = c
        /\ Append(text, c) \in Seq(Kinds) /\ Len(text) \in Nat
    BY <2>1, AppendIs
  <2>5. /\ Bytes(Append(text, c)) = Bytes(text) + Bytes(<<c>>)
        /\ Bytes(Append(text, c)) \in Nat
    BY <2>1, <2>4, BytesGrow, BytesAre
  <2> DEFINE longer == Append(text, c)
  <2>6. Fits(longer)
    BY <2>2, <2>4, <2>5, NamesAssumption DEF Fits
  <2>7. longer[Len(longer)] # Space
    BY <2>1, <2>4
  <2> HIDE DEF longer
  <2>8. grown = [text |-> longer, gap |-> FALSE, full |-> FALSE]
    BY DEF longer
  <2> HIDE DEF grown
  <2> QED
    BY <2>3, <2>6, <2>7, <2>8 DEF Growing, longer
<1> HIDE DEF paused, filled, grown, much
<1> QED
  BY <1>1, <1>3, <1>5, <1>6

LEMMA CollapsedExists ==
  ASSUME NEW input, Len(input) \in Nat
  PROVE  Collapsed(input) =
           [n \in 0 .. Len(input) |->
             IF n = 0 THEN [text |-> <<>>, gap |-> FALSE, full |-> FALSE]
             ELSE TakeCharacter(Collapsed(input)[n - 1], input[n])]
<1> DEFINE empty == [text |-> <<>>, gap |-> FALSE, full |-> FALSE]
           Step(f, n) == IF n = 0 THEN empty ELSE TakeCharacter(f[n - 1], input[n])
           S == {n \in Nat : \E f : f = [k \in 0 .. n |-> Step(f, k)]}
<1>1. 0 \in S
  <2>1. [k \in {0} |-> empty] = [k \in 0 .. 0 |-> Step([j \in {0} |-> empty], k)]
    OBVIOUS
  <2> QED
    BY <2>1
<1>2. ASSUME NEW n \in Nat, n \in S PROVE n + 1 \in S
  <2>1. PICK f : f = [k \in 0 .. n |-> Step(f, k)]
    BY <1>2
  <2>2. \A k \in 0 .. n : f[k] = Step(f, k)
    <3> HIDE DEF Step
    <3> QED
      BY <2>1
  <2> DEFINE g == [k \in 0 .. n + 1 |-> IF k = n + 1 THEN TakeCharacter(f[n], input[n + 1])
                                        ELSE f[k]]
  <2>3. ASSUME NEW k \in 0 .. n + 1 PROVE g[k] = Step(g, k)
    <3>1. CASE k = n + 1
      <4>1. g[k] = TakeCharacter(f[n], input[n + 1]) /\ g[n] = f[n] /\ k - 1 = n /\ k # 0
        BY <3>1
      <4> QED
        BY <3>1, <4>1
    <3>2. CASE k # n + 1
      <4>1. k \in 0 .. n /\ g[k] = f[k] /\ f[k] = Step(f, k)
        BY <2>2, <3>2
      <4>2. k # 0 => g[k - 1] = f[k - 1]
        BY <3>2
      <4> QED
        BY <4>1, <4>2
    <3> QED
      BY <3>1, <3>2
  <2>4. g = [k \in 0 .. n + 1 |-> Step(g, k)]
    BY <2>3
  <2> HIDE DEF g
  <2> QED
    BY <2>4
<1>3. Nat \subseteq S
  <2> HIDE DEF S
  <2> QED
    BY <1>1, <1>2, NatInductionOn
<1>4. \E f : f = [k \in 0 .. Len(input) |-> Step(f, k)]
  BY <1>3
<1>5. Collapsed(input) = CHOOSE f : f = [k \in 0 .. Len(input) |-> Step(f, k)]
  BY DEF Collapsed
<1> QED
  BY <1>4, <1>5

LEMMA CollapsedGrows ==
  ASSUME NEW input, Len(input) \in Nat
  PROVE  LET taken == Collapsed(input)
         IN  /\ taken[0] = [text |-> <<>>, gap |-> FALSE, full |-> FALSE]
             /\ \A n \in 0 .. Len(input) - 1 :
                    taken[n + 1] = TakeCharacter(taken[n], input[n + 1])
<1> DEFINE taken == Collapsed(input)
           Step(n) == IF n = 0 THEN [text |-> <<>>, gap |-> FALSE, full |-> FALSE]
                      ELSE TakeCharacter(taken[n - 1], input[n])
<1>1. taken = [n \in 0 .. Len(input) |-> Step(n)]
  BY CollapsedExists
<1> HIDE DEF taken
<1>2. \A n \in 0 .. Len(input) : taken[n] = Step(n)
  BY <1>1
<1>3. taken[0] = Step(0)
  BY <1>2
<1>4. ASSUME NEW n \in 0 .. Len(input) - 1
      PROVE  taken[n + 1] = TakeCharacter(taken[n], input[n + 1])
  <2>1. n + 1 \in 0 .. Len(input) /\ n + 1 # 0 /\ (n + 1) - 1 = n
    OBVIOUS
  <2> QED
    BY <1>2, <2>1
<1> QED
  BY <1>3, <1>4 DEF taken

LEMMA CollapsedIsGrowing ==
  ASSUME NEW input \in Seq(Kinds)
  PROVE  Growing(Collapsed(input)[Len(input)])
<1> DEFINE taken == Collapsed(input)
           S == {n \in Nat : n <= Len(input) => Growing(taken[n])}
<1>1. 0 \in S
  BY CollapsedGrows, EmptyGrows
<1>2. ASSUME NEW n \in Nat, n \in S PROVE n + 1 \in S
  <2> SUFFICES ASSUME n + 1 <= Len(input) PROVE Growing(taken[n + 1])
    OBVIOUS
  <2>1. n \in 0 .. Len(input) - 1 /\ Growing(taken[n]) /\ n + 1 \in 1 .. Len(input)
    BY <1>2
  <2>2. taken[n + 1] = TakeCharacter(taken[n], input[n + 1])
    BY <2>1, CollapsedGrows
  <2>3. input[n + 1] \in Kinds
    BY <2>1, ElementOfSeq
  <2> HIDE DEF taken
  <2> QED
    BY <2>1, <2>2, <2>3, NameGrows
<1> HIDE DEF S
<1>3. Nat \subseteq S
  BY <1>1, <1>2, NatInductionOn
<1> QED
  BY <1>3 DEF S

(* The end is cut off at the last character that may be there.               *)
LEMMA TrimmedIs ==
  ASSUME NEW text \in Seq(Kinds), NEW kinds
  PROVE  \E m \in 0 .. Len(text) :
            /\ TrimEnd(text, kinds) = SubSeq(text, 1, m)
            /\ m > 0 => text[m] \notin kinds
            /\ \A i \in m + 1 .. Len(text) : text[i] \in kinds
<1> DEFINE kept == {i \in DOMAIN text : text[i] \notin kinds}
           last == CHOOSE i \in kept : \A j \in kept : j <= i
<1>1. TrimEnd(text, kinds) = IF kept = {} THEN <<>> ELSE SubSeq(text, 1, last)
  BY DEF TrimEnd
<1>2. CASE kept = {}
  <2>1. TrimEnd(text, kinds) = SubSeq(text, 1, 0)
    BY <1>1, <1>2, SubSeqEmpty
  <2> QED
    BY <1>2, <2>1
<1>3. CASE kept # {}
  <2>1. kept \in SUBSET (1 .. Len(text)) /\ Len(text) \in Nat
    OBVIOUS
  <2>2. \E i \in kept : \A j \in kept : j <= i
    BY <1>3, <2>1, Greatest
  <2>3. last \in kept /\ \A j \in kept : j <= last
    BY <2>2
  <2> HIDE DEF last
  <2>4. last \in 0 .. Len(text) /\ text[last] \notin kinds
    BY <2>1, <2>3
  <2>5. \A i \in last + 1 .. Len(text) : text[i] \in kinds
    BY <2>1, <2>3
  <2> QED
    BY <1>1, <1>3, <2>4, <2>5
<1> QED
  BY <1>2, <1>3

(* A name that ends in a character that may be there.                        *)
Ended(text) ==
    /\ Clean(text) /\ Len(text) > 0
    /\ text[Len(text)] \notin {Space, "."}

LEMMA CleanStart ==
  ASSUME NEW text, Clean(text), NEW m \in 0 .. Len(text)
  PROVE  Clean(SubSeq(text, 1, m))
<1> DEFINE start == SubSeq(text, 1, m)
<1>1. text \in Seq(Kinds) /\ Len(text) \in Nat
  BY DEF Clean
<1>2. /\ start \in Seq(Kinds) /\ Len(start) = m
      /\ \A i \in 1 .. m : start[i] = text[i]
  BY <1>1, BytesOfStart
<1> HIDE DEF start
<1>3. Clean(start)
  BY <1>1, <1>2 DEF Clean
<1> QED
  BY <1>3 DEF start

(* What is left of a name after its end has been cut off.                    *)
LEMMA TrimmedName ==
  ASSUME NEW text, Clean(text),
         Fits(text) \/ (/\ Len(text) > 0 /\ text[Len(text)] = Space
                       /\ Fits(SubSeq(text, 1, Len(text) - 1))),
         NEW name, name = TrimEnd(text, {Space, "."}), name # <<>>
  PROVE  Ended(name) /\ Fits(name)
<1>1. text \in Seq(Kinds) /\ Len(text) \in Nat
  BY DEF Clean
<1>2. PICK m \in 0 .. Len(text) :
            /\ name = SubSeq(text, 1, m)
            /\ m > 0 => text[m] \notin {Space, "."}
            /\ \A i \in m + 1 .. Len(text) : text[i] \in {Space, "."}
  BY <1>1, TrimmedIs
<1>3. m > 0
  <2>1. m = 0 => name = <<>>
    BY <1>2, SubSeqEmpty
  <2> QED
    BY <2>1
<1>4. /\ name \in Seq(Kinds) /\ Len(name) = m
      /\ \A i \in 1 .. m : name[i] = text[i]
      /\ Bytes(name) <= Bytes(text)
  <2>1. /\ SubSeq(text, 1, m) \in Seq(Kinds) /\ Len(SubSeq(text, 1, m)) = m
        /\ \A i \in 1 .. m : SubSeq(text, 1, m)[i] = text[i]
        /\ Bytes(SubSeq(text, 1, m)) <= Bytes(text)
    BY <1>1, BytesOfStart
  <2>2. name = SubSeq(text, 1, m)
    BY <1>2
  <2> QED
    BY <2>1, <2>2, Zenon
<1>5. Ended(name)
  <2>1. Clean(SubSeq(text, 1, m))
    BY CleanStart
  <2>2. Clean(name)
    BY <1>2, <2>1, Zenon
  <2>3. m \in 1 .. m
    BY <1>1, <1>3
  <2>4. name[Len(name)] = text[m]
    BY <1>4, <2>3
  <2>5. text[m] \notin {Space, "."}
    BY <1>2, <1>3
  <2> QED
    BY <1>3, <1>4, <2>2, <2>4, <2>5 DEF Ended
<1>6. CASE Fits(text)
  <2>1. Bytes(text) \in Nat /\ Bytes(name) \in Nat
    BY <1>1, <1>4, BytesAre
  <2> QED
    BY <1>1, <1>4, <1>5, <1>6, <2>1, NamesAssumption DEF Fits
<1>7. CASE /\ Len(text) > 0 /\ text[Len(text)] = Space
           /\ Fits(SubSeq(text, 1, Len(text) - 1))
  <2> DEFINE front == SubSeq(text, 1, Len(text) - 1)
  <2>1. Len(text) - 1 \in 0 .. Len(text)
    BY <1>1, <1>7
  <2>2. /\ front \in Seq(Kinds) /\ Len(front) = Len(text) - 1
        /\ \A i \in 1 .. Len(text) - 1 : front[i] = text[i]
    BY <1>1, <2>1, BytesOfStart
  <2>3. m <= Len(text) - 1
    BY <1>1, <1>2, <1>3, <1>7
  <2>9. Fits(front)
    BY <1>7
  <2> HIDE DEF front
  <2>4. m \in 0 .. Len(front)
    BY <1>1, <2>2, <2>3
  <2> DEFINE start == SubSeq(front, 1, m)
  <2>5. /\ start \in Seq(Kinds) /\ Len(start) = m
        /\ \A i \in 1 .. m : start[i] = front[i]
        /\ Bytes(start) <= Bytes(front)
    BY <2>2, <2>4, BytesOfStart
  <2> HIDE DEF start
  <2>6. start = name
    <3>1. ASSUME NEW i \in 1 .. m PROVE start[i] = name[i]
      <4>1. start[i] = front[i] /\ name[i] = text[i]
        BY <1>4, <2>5
      <4>2. i \in 1 .. Len(text) - 1
        BY <1>1, <2>3
      <4> QED
        BY <2>2, <4>1, <4>2
    <3>2. Len(start) = Len(name)
      BY <1>4, <2>5
    <3> QED
      BY <1>4, <2>5, <3>1, <3>2, SeqEqual
  <2>7. Len(name) <= Len(front) /\ Bytes(name) <= Bytes(front)
    BY <1>4, <2>4, <2>5, <2>6
  <2>8. Bytes(front) \in Nat /\ Bytes(name) \in Nat
    BY <1>4, <2>2, BytesAre
  <2> QED
    BY <1>4, <1>5, <2>2, <2>7, <2>8, <2>9, NamesAssumption DEF Fits
<1> QED
  BY <1>6, <1>7

LEMMA LettersFit ==
  ASSUME NEW text \in Seq(Kinds), Letters(text)
  PROVE  /\ Clean(text) /\ Bytes(text) = Len(text)
         /\ Len(text) > 0 => Ended(text)
<1>1. Wide(text) = {}
  BY DEF Wide, Letters
<1>2. Cardinality(Wide(text)) = 0
  BY <1>1, FS_EmptySet
<1>3. Bytes(text) = Len(text)
  BY <1>2, NamesAssumption DEF Bytes
<1>4. \A i \in 1 .. Len(text) : text[i] # "/" /\ text[i] # Space /\ text[i] # "."
  BY DEF Letters
<1>5. Clean(text)
  BY <1>4 DEF Clean
<1> QED
  BY <1>3, <1>4, <1>5 DEF Ended

(* A name with the mark in front of it is as good, and no device.            *)
LEMMA MarkedIs ==
  ASSUME NEW text, Ended(text)
  PROVE  /\ Ended(Mark \o text) /\ Len(Mark \o text) = Len(Mark) + Len(text)
         /\ (Mark \o text)[1] = Mark[1]
<1> DEFINE marked == Mark \o text
           n == Len(Mark)
<1>1. Mark \in Seq(Kinds) /\ Letters(Mark) /\ Len(Mark) \in Nat /\ Len(Mark) > 0
  BY NamesAssumption, TextsAre
<1>2. text \in Seq(Kinds) /\ Len(text) \in Nat /\ Len(text) > 0
  BY DEF Ended, Clean
<1>3. /\ marked \in Seq(Kinds) /\ Len(marked) = n + Len(text)
      /\ \A i \in 1 .. n + Len(text) : marked[i] = IF i <= n THEN Mark[i] ELSE text[i - n]
  BY <1>1, <1>2, ConcatProperties
<1>4. \A i \in 1 .. n : Mark[i] # "/" /\ Mark[i] # Space /\ Mark[i] # "."
  BY <1>1 DEF Letters
<1> HIDE DEF marked, n
<1>5. n \in Nat /\ n > 0
  BY <1>1 DEF n
<1>6. \A i \in 1 .. Len(marked) : marked[i] # "/"
  <2> SUFFICES ASSUME NEW i \in 1 .. n + Len(text) PROVE marked[i] # "/"
    BY <1>3
  <2>1. CASE i <= n
    BY <1>3, <1>4, <1>5, <2>1
  <2>2. CASE i > n
    <3>1. i - n \in 1 .. Len(text)
      BY <1>2, <1>5, <2>2
    <3>2. marked[i] = text[i - n]
      BY <1>3, <1>5, <2>2
    <3> QED
      BY <3>1, <3>2 DEF Ended, Clean
  <2> QED
    BY <1>5, <2>1, <2>2
<1>7. marked[1] = Mark[1] /\ Mark[1] # Space
  BY <1>2, <1>3, <1>4, <1>5
<1>8. ASSUME NEW i \in 1 .. Len(marked) - 1, marked[i] = Space PROVE marked[i + 1] # Space
  <2>1. i > n
    BY <1>2, <1>3, <1>4, <1>5, <1>8
  <2>2. /\ i - n \in 1 .. Len(text) - 1 /\ (i - n) + 1 = (i + 1) - n
        /\ marked[i] = text[i - n] /\ marked[i + 1] = text[(i + 1) - n]
    BY <1>2, <1>3, <1>5, <2>1
  <2>3. text[i - n] = Space => text[(i - n) + 1] # Space
    BY <2>2 DEF Ended, Clean
  <2> QED
    BY <1>8, <2>2, <2>3
<1>9. marked[Len(marked)] = text[Len(text)]
  BY <1>2, <1>3, <1>5
<1>10. Ended(marked)
  BY <1>2, <1>3, <1>5, <1>6, <1>7, <1>8, <1>9 DEF Ended, Clean
<1> QED
  BY <1>3, <1>7, <1>10 DEF marked, n

(* A device name begins with what the text begins with.                      *)
LEMMA DeviceBegins ==
  ASSUME NEW text \in Seq(Kinds), Len(text) > 0, text[1] \notin {Space, "."}, IsDeviceName(text)
  PROVE  \E device \in Devices : device[1] = Capital(text[1])
<1> DEFINE dots == {i \in DOMAIN text : text[i] = "."}
           least == CHOOSE i \in dots : \A j \in dots : i <= j
           first == IF dots = {} THEN text ELSE SubSeq(text, 1, least - 1)
           name == TrimEnd(first, {Space, "."})
<1>1. Capitals(name) \in Devices
  BY Zenon DEF IsDeviceName
<1>2. Len(text) \in Nat /\ DOMAIN text = 1 .. Len(text)
  OBVIOUS
<1>3. first \in Seq(Kinds) /\ Len(first) > 0 /\ first[1] = text[1]
  <2>1. CASE dots = {}
    BY <2>1
  <2>2. CASE dots # {}
    <3>1. dots \in SUBSET Nat
      BY <1>2
    <3>2. \E i \in dots : \A j \in dots : i <= j
      BY <2>2, <3>1, Least
    <3>3. least \in dots
      BY <3>2
    <3> HIDE DEF least
    <3>4. least \in 1 .. Len(text) /\ text[least] = "."
      BY <1>2, <3>3
    <3>5. least # 1
      BY <3>4
    <3>6. least - 1 \in 0 .. Len(text) /\ least - 1 > 0
      BY <3>4, <3>5
    <3> DEFINE start == SubSeq(text, 1, least - 1)
    <3>7. /\ start \in Seq(Kinds) /\ Len(start) = least - 1
          /\ \A i \in 1 .. least - 1 : start[i] = text[i]
      BY <3>6, BytesOfStart
    <3>8. first = start
      BY <2>2
    <3> HIDE DEF start, first
    <3>9. 1 \in 1 .. least - 1
      BY <3>6
    <3> QED
      BY <3>6, <3>7, <3>8, <3>9
  <2> QED
    BY <2>1, <2>2
<1> HIDE DEF first
<1>4. PICK m \in 0 .. Len(first) :
            /\ name = SubSeq(first, 1, m)
            /\ \A i \in m + 1 .. Len(first) : first[i] \in {Space, "."}
  BY <1>3, TrimmedIs
<1>5. m > 0
  <2>1. 1 \in m + 1 .. Len(first) => first[1] \in {Space, "."}
    BY <1>4
  <2>2. Len(first) \in Nat
    BY <1>3
  <2> QED
    BY <1>3, <2>1, <2>2
<1>6. Len(SubSeq(first, 1, m)) = m /\ SubSeq(first, 1, m) \in Seq(Kinds)
      /\ \A i \in 1 .. m : SubSeq(first, 1, m)[i] = first[i]
  BY <1>3, BytesOfStart
<1>7. Len(name) = m /\ name \in Seq(Kinds) /\ \A i \in 1 .. m : name[i] = first[i]
  BY <1>4, <1>6, Zenon
<1> HIDE DEF name
<1>8. 1 \in DOMAIN name /\ name[1] = text[1]
  <2>1. 1 \in 1 .. m /\ DOMAIN name = 1 .. m
    BY <1>5, <1>7
  <2> QED
    BY <1>3, <1>7, <2>1
<1>9. Capitals(name)[1] = Capital(text[1])
  <2>1. Capitals(name) = [i \in DOMAIN name |-> Capital(name[i])]
    BY Zenon DEF Capitals
  <2> QED
    BY <1>8, <2>1, Zenon
<1> QED
  BY <1>1, <1>9

LEMMA MarkedIsNoDevice ==
  ASSUME NEW text, Ended(text)
  PROVE  ~IsDeviceName(Mark \o text)
<1> DEFINE marked == Mark \o text
<1>1. marked \in Seq(Kinds) /\ Len(marked) > 0 /\ marked[1] = Mark[1]
  BY MarkedIs DEF Ended, Clean
<1>2. Mark[1] \notin {Space, "."}
  <2>1. Mark \in Seq(STRING) /\ Mark # <<>> /\ Letters(Mark)
    BY NamesAssumption
  <2>2. 1 \in DOMAIN Mark
    BY <2>1
  <2> QED
    BY <2>1, <2>2 DEF Letters
<1> HIDE DEF marked
<1>3. SUFFICES ASSUME IsDeviceName(marked) PROVE FALSE
  BY DEF marked
<1>4. PICK device \in Devices : device[1] = Capital(marked[1])
  BY <1>1, <1>2, <1>3, DeviceBegins
<1> QED
  BY <1>1, <1>4, NamesAssumption

LEMMA MarkedBytes ==
  ASSUME NEW text \in Seq(Kinds)
  PROVE  Bytes(Mark \o text) <= Len(Mark) + Bytes(text)
<1> DEFINE marked == Mark \o text
           n == Len(Mark)
           moved == [i \in Wide(text) |-> i + n]
           j == Cardinality(Wide(marked))
           k == Cardinality(Wide(text))
           w == WideBytes - 1
<1>1. Mark \in Seq(Kinds) /\ n \in Nat /\ \A i \in 1 .. n : Mark[i] # "w"
  <2>1. Mark \in Seq(STRING) /\ Letters(Mark)
    BY NamesAssumption
  <2>2. Mark \in Seq(Kinds)
    BY <2>1, TextsAre
  <2> QED
    BY <2>1, <2>2 DEF Letters
<1>2. /\ marked \in Seq(Kinds) /\ Len(marked) = n + Len(text)
      /\ \A i \in 1 .. n + Len(text) : marked[i] = IF i <= n THEN Mark[i] ELSE text[i - n]
  BY <1>1, ConcatProperties
<1>3. Len(text) \in Nat /\ w \in Nat
  BY NamesAssumption
<1> HIDE DEF marked, n
<1>4. /\ Wide(text) = {i \in 1 .. Len(text) : text[i] = "w"}
      /\ Wide(marked) = {i \in 1 .. n + Len(text) : marked[i] = "w"}
  BY <1>2 DEF Wide
<1>5. moved \in Surjection(Wide(text), Wide(marked))
  <2>1. ASSUME NEW i \in Wide(text) PROVE i + n \in Wide(marked)
    <3>1. /\ i \in 1 .. Len(text) /\ text[i] = "w" /\ i + n \in 1 .. n + Len(text)
          /\ ~(i + n <= n) /\ (i + n) - n = i
      BY <1>1, <1>3, <1>4
    <3>2. marked[i + n] = text[i]
      BY <1>2, <3>1
    <3> QED
      BY <1>4, <3>1, <3>2
  <2>2. ASSUME NEW i \in Wide(marked) PROVE \E e \in Wide(text) : moved[e] = i
    <3>1. i \in 1 .. n + Len(text) /\ marked[i] = "w"
      BY <1>4
    <3>2. ~(i <= n)
      <4>1. SUFFICES ASSUME i <= n PROVE FALSE
        OBVIOUS
      <4>2. i \in 1 .. n /\ marked[i] = Mark[i]
        BY <1>1, <1>2, <3>1, <4>1
      <4> QED
        BY <1>1, <3>1, <4>2
    <3>3. marked[i] = text[i - n]
      BY <1>2, <3>1, <3>2
    <3>4. i - n \in 1 .. Len(text) /\ (i - n) + n = i
      BY <1>1, <1>3, <3>1, <3>2
    <3>5. i - n \in Wide(text)
      BY <1>4, <3>1, <3>3, <3>4
    <3> QED
      BY <3>4, <3>5
  <2> QED
    BY <2>1, <2>2 DEF Surjection
<1>6. j <= k /\ j \in Nat /\ k \in Nat
  <2>1. IsFiniteSet(Wide(text)) /\ k \in Nat
    BY WideIs
  <2>2. j \in Nat
    BY <1>2, WideIs
  <2> HIDE DEF moved
  <2> QED
    BY <1>5, <2>1, <2>2, FS_Surjection
<1>7. Bytes(marked) = n + Len(text) + w * j /\ Bytes(text) = Len(text) + w * k
  BY <1>2 DEF Bytes
<1> HIDE DEF j, k, w
<1>8. w * j <= w * k /\ w * j \in Nat /\ w * k \in Nat
  <2>1. PICK d \in Nat : k = j + d
    <3>1. k - j \in Nat /\ k = j + (k - j)
      BY <1>6
    <3> QED
      BY <3>1
  <2>2. w * k = w * j + w * d /\ w * d \in Nat /\ w * j \in Nat
    BY <1>3, <1>6, <2>1
  <2> QED
    BY <2>2
<1>9. Bytes(marked) <= n + Bytes(text)
  BY <1>1, <1>3, <1>7, <1>8
<1> QED
  BY <1>9 DEF marked, n

LEMMA StartGrows ==
  ASSUME NEW S, NEW text \in Seq(S), NEW k \in 0 .. Len(text) - 1
  PROVE  Append(SubSeq(text, 1, k), text[k + 1]) = SubSeq(text, 1, k + 1)
<1> DEFINE short == SubSeq(text, 1, k)
           long == SubSeq(text, 1, k + 1)
           grown == Append(short, text[k + 1])
<1>1. k \in Nat /\ Len(text) \in Nat /\ k + 1 \in 1 .. Len(text) /\ k \in Int /\ 1 \in Int /\ k + 1 \in Int
  OBVIOUS
<1>2. \A i \in 1 .. k + 1 : text[i] \in S
  BY <1>1, ElementOfSeq
<1>3. /\ short \in Seq(S) /\ Len(short) = k
      /\ \A i \in 1 .. k : short[i] = text[i]
  <2>1. \A i \in 1 .. k : text[i] \in S
    BY <1>1, <1>2
  <2>2. /\ short \in Seq(S) /\ Len(short) = IF 1 <= k THEN k - 1 + 1 ELSE 0
        /\ \A i \in 1 .. k - 1 + 1 : short[i] = text[1 + i - 1]
    BY <1>1, <2>1, SubSeqProperties
  <2> HIDE DEF short
  <2> QED
    BY <1>1, <2>2
<1>4. /\ long \in Seq(S) /\ Len(long) = k + 1
      /\ \A i \in 1 .. k + 1 : long[i] = text[i]
  <2>2. /\ long \in Seq(S) /\ Len(long) = IF 1 <= k + 1 THEN (k + 1) - 1 + 1 ELSE 0
        /\ \A i \in 1 .. (k + 1) - 1 + 1 : long[i] = text[1 + i - 1]
    BY <1>1, <1>2, SubSeqProperties
  <2> HIDE DEF long
  <2> QED
    BY <1>1, <2>2
<1> HIDE DEF short, long
<1>5. /\ grown \in Seq(S) /\ Len(grown) = k + 1 /\ grown[k + 1] = text[k + 1]
      /\ \A i \in 1 .. k : grown[i] = short[i]
  <2>1. text[k + 1] \in S
    BY <1>1, <1>2
  <2> QED
    BY <1>3, <2>1, AppendIs
<1> HIDE DEF grown
<1>6. \A i \in 1 .. k + 1 : grown[i] = long[i]
  BY <1>1, <1>3, <1>4, <1>5
<1>7. grown = long
  BY <1>4, <1>5, <1>6, SeqEqual
<1> QED
  BY <1>7 DEF grown, short, long

(* What a name that is already clean and short enough grows to.              *)
GrownTo(r, text, k) ==
    /\ ~r.full
    /\ r.gap = (k > 0 /\ text[k] = Space)
    /\ r.text = SubSeq(text, 1, IF k > 0 /\ text[k] = Space THEN k - 1 ELSE k)

LEMMA NextGrown ==
  ASSUME NEW text, Clean(text), Fits(text), NEW k \in 0 .. Len(text) - 1,
         NEW r, r = [text |-> r.text, gap |-> r.gap, full |-> r.full], GrownTo(r, text, k)
  PROVE  GrownTo(TakeCharacter(r, text[k + 1]), text, k + 1)
<1> DEFINE c == text[k + 1]
           so == IF r.gap THEN Append(r.text, Space) ELSE r.text
           paused == [r EXCEPT !.gap = r.text # <<>>]
           grown == [text |-> Append(so, c), gap |-> FALSE, full |-> FALSE]
<1>1. text \in Seq(Kinds) /\ Len(text) \in Nat
  BY DEF Clean
<1>2. k \in Nat /\ k + 1 \in 1 .. Len(text) /\ (k + 1) - 1 = k /\ k + 1 > 0
      /\ k \in 0 .. Len(text) /\ k + 1 \in 0 .. Len(text)
  BY <1>1
<1>3. c \in Kinds /\ c # "/"
  BY <1>1, <1>2, ElementOfSeq DEF Clean
<1>4. CASE c = Space
  <2>1. k > 0
    BY <1>2, <1>4 DEF Clean
  <2>2. text[k] # Space
    <3>1. k \in 1 .. Len(text) - 1
      BY <1>2, <2>1
    <3> QED
      BY <1>4, <3>1 DEF Clean
  <2>3. r.text = SubSeq(text, 1, k) /\ ~r.full
    BY <2>2 DEF GrownTo
  <2>4. Len(r.text) = k
    BY <1>1, <1>2, <2>3, BytesOfStart, Zenon
  <2>5. r.text # <<>>
    BY <2>1, <2>4
  <2>6. TakeCharacter(r, c) = paused
    BY <1>4, <2>3 DEF TakeCharacter, IsGap
  <2>7. paused.text = r.text /\ paused.gap = TRUE /\ paused.full = r.full
    BY <2>5
  <2> HIDE DEF paused
  <2>8. text[k + 1] = Space
    BY <1>4
  <2> QED
    BY <1>2, <2>3, <2>6, <2>7, <2>8 DEF GrownTo
<1>5. CASE c # Space
  <2>1. ~r.full
    BY DEF GrownTo
  <2>2. so = SubSeq(text, 1, k)
    <3>1. CASE k > 0 /\ text[k] = Space
      <4>1. r.gap /\ r.text = SubSeq(text, 1, k - 1)
        BY <3>1 DEF GrownTo
      <4>2. k - 1 \in 0 .. Len(text) - 1 /\ (k - 1) + 1 = k
        BY <1>2, <3>1
      <4>3. Append(SubSeq(text, 1, k - 1), text[(k - 1) + 1]) = SubSeq(text, 1, (k - 1) + 1)
        BY <1>1, <4>2, StartGrows, Zenon
      <4> QED
        BY <3>1, <4>1, <4>2, <4>3, Zenon
    <3>2. CASE ~(k > 0 /\ text[k] = Space)
      BY <3>2, Zenon DEF GrownTo
    <3> QED
      BY <3>1, <3>2
  <2>3. Append(so, c) = SubSeq(text, 1, k + 1)
    BY <1>1, <2>2, StartGrows, Zenon
  <2>4. so \in Seq(Kinds) /\ Len(so) = k
    BY <1>1, <1>2, <2>2, BytesOfStart, Zenon
  <2> HIDE DEF so
  <2>5. Bytes(Append(so, c)) = Bytes(so) + Bytes(<<c>>)
    BY <1>3, <2>4, BytesGrow
  <2>6. Bytes(SubSeq(text, 1, k + 1)) <= Bytes(text) /\ SubSeq(text, 1, k + 1) \in Seq(Kinds)
    BY <1>1, <1>2, BytesOfStart
  <2>7. Bytes(Append(so, c)) <= Bytes(text) /\ Bytes(Append(so, c)) \in Nat /\ Bytes(text) \in Nat
    BY <1>1, <2>3, <2>6, BytesAre
  <2>8. ~(Len(so) >= MaxChars) /\ ~(Bytes(so) + Bytes(<<c>>) > MaxBytes)
    <3>1. Len(text) <= MaxChars /\ Bytes(text) <= MaxBytes /\ MaxChars \in Nat /\ MaxBytes \in Nat
      BY NamesAssumption DEF Fits
    <3>2. Bytes(so) + Bytes(<<c>>) <= Bytes(text) /\ Bytes(so) + Bytes(<<c>>) \in Nat
      BY <2>5, <2>7
    <3> HIDE DEF c
    <3>3. ~(Len(so) >= MaxChars)
      BY <1>2, <2>4, <3>1
    <3>4. ~(Bytes(so) + Bytes(<<c>>) > MaxBytes)
      BY <2>7, <3>1, <3>2
    <3> QED
      BY <3>3, <3>4
  <2>9. TakeCharacter(r, c) = grown
    <3>1. ~IsGap(c)
      BY <1>3, <1>5 DEF IsGap
    <3>2. TakeCharacter(r, c) =
             IF r.full THEN r ELSE IF IsGap(c) THEN paused
             ELSE IF Len(so) >= MaxChars \/ Bytes(so) + Bytes(<<c>>) > MaxBytes
                  THEN [text |-> so, gap |-> FALSE, full |-> TRUE] ELSE grown
      BY DEF TakeCharacter, so
    <3> HIDE DEF grown, c
    <3> QED
      BY <2>1, <2>8, <3>1, <3>2, Zenon
  <2>10. grown.text = SubSeq(text, 1, k + 1) /\ grown.gap = FALSE /\ grown.full = FALSE
    BY <2>3
  <2> HIDE DEF grown
  <2>11. text[k + 1] # Space
    BY <1>5
  <2> QED
    BY <1>2, <2>9, <2>10, <2>11 DEF GrownTo
<1> QED
  BY <1>4, <1>5

LEMMA CleanStays ==
  ASSUME NEW text, Ended(text), Fits(text)
  PROVE  Collapsed(text)[Len(text)].text = text
<1> DEFINE taken == Collapsed(text)
           S == {n \in Nat : n <= Len(text) => Growing(taken[n]) /\ GrownTo(taken[n], text, n)}
<1>1. Clean(text) /\ text \in Seq(Kinds) /\ Len(text) \in Nat /\ Len(text) > 0
  BY DEF Ended, Clean
<1>2. 0 \in S
  <2> DEFINE empty == [text |-> <<>>, gap |-> FALSE, full |-> FALSE]
  <2>1. taken[0] = empty
    BY <1>1, CollapsedGrows, Zenon
  <2>2. Growing(empty)
    BY EmptyGrows
  <2>3. SubSeq(text, 1, 0) = <<>>
    BY SubSeqEmpty
  <2>4. GrownTo(empty, text, 0)
    <3>1. /\ empty.text = <<>> /\ empty.gap = FALSE /\ empty.full = FALSE
          /\ ~(0 > 0 /\ text[0] = Space)
      OBVIOUS
    <3> HIDE DEF empty
    <3> QED
      BY <2>3, <3>1 DEF GrownTo
  <2> HIDE DEF taken, empty
  <2> QED
    BY <2>1, <2>2, <2>4
<1>3. ASSUME NEW n \in Nat, n \in S PROVE n + 1 \in S
  <2> SUFFICES ASSUME n + 1 <= Len(text)
               PROVE  Growing(taken[n + 1]) /\ GrownTo(taken[n + 1], text, n + 1)
    OBVIOUS
  <2>1. n \in 0 .. Len(text) - 1 /\ Growing(taken[n]) /\ GrownTo(taken[n], text, n)
        /\ n + 1 \in 1 .. Len(text)
    BY <1>1, <1>3
  <2>2. taken[n + 1] = TakeCharacter(taken[n], text[n + 1])
    BY <1>1, <2>1, CollapsedGrows
  <2>3. text[n + 1] \in Kinds
    BY <1>1, <2>1, ElementOfSeq
  <2> HIDE DEF taken
  <2>4. taken[n] = [text |-> taken[n].text, gap |-> taken[n].gap, full |-> taken[n].full]
    BY <2>1, Zenon DEF Growing
  <2>5. GrownTo(TakeCharacter(taken[n], text[n + 1]), text, n + 1)
    BY <1>1, <2>1, <2>4, NextGrown, Zenon
  <2> QED
    BY <2>1, <2>2, <2>3, <2>5, NameGrows
<1> HIDE DEF S
<1>4. Nat \subseteq S
  BY <1>2, <1>3, NatInductionOn
<1>5. GrownTo(taken[Len(text)], text, Len(text))
  BY <1>1, <1>4 DEF S
<1>6. text[Len(text)] # Space
  BY DEF Ended
<1>7. taken[Len(text)].text = SubSeq(text, 1, Len(text))
  BY <1>5, <1>6, Zenon DEF GrownTo
<1> QED
  BY <1>1, <1>7, SubSeqFull, Zenon

LEMMA EndedStays ==
  ASSUME NEW text, Ended(text)
  PROVE  TrimEnd(text, {Space, "."}) = text
<1>1. text \in Seq(Kinds) /\ Len(text) \in Nat /\ Len(text) > 0
  BY DEF Ended, Clean
<1>2. PICK m \in 0 .. Len(text) :
            /\ TrimEnd(text, {Space, "."}) = SubSeq(text, 1, m)
            /\ \A i \in m + 1 .. Len(text) : text[i] \in {Space, "."}
  BY <1>1, TrimmedIs
<1>3. m = Len(text)
  <2>1. SUFFICES ASSUME m # Len(text) PROVE FALSE
    OBVIOUS
  <2>2. Len(text) \in m + 1 .. Len(text)
    BY <1>1, <2>1
  <2> QED
    BY <1>2, <2>2 DEF Ended
<1> QED
  BY <1>1, <1>2, <1>3, SubSeqFull, Zenon

(* What a name is cut down to, before it is made portable.                   *)
LEMMA PortableIs ==
  ASSUME NEW base, Ended(base), Fits(base)
  PROVE  /\ Ended(Portable(base)) /\ ~IsDeviceName(Portable(base))
         /\ Len(Portable(base)) <= MaxChars + Len(Mark)
         /\ Bytes(Portable(base)) <= MaxBytes + Len(Mark)
<1>1. base \in Seq(Kinds) /\ Len(base) \in Nat /\ Bytes(base) \in Nat
  BY BytesAre DEF Ended, Clean
<1>2. Len(Mark) \in Nat /\ MaxChars \in Nat /\ MaxBytes \in Nat
  BY NamesAssumption
<1>3. Len(base) <= MaxChars /\ Bytes(base) <= MaxBytes
  BY DEF Fits
<1>4. CASE IsDeviceName(base)
  <2>1. Portable(base) = Mark \o base
    BY <1>4 DEF Portable
  <2> DEFINE marked == Mark \o base
  <2>2. Ended(marked) /\ Len(marked) = Len(Mark) + Len(base) /\ ~IsDeviceName(marked)
    BY MarkedIs, MarkedIsNoDevice
  <2>3. Bytes(marked) <= Len(Mark) + Bytes(base)
    BY <1>1, MarkedBytes
  <2>4. Bytes(marked) \in Nat
    BY <2>2, BytesAre DEF Ended, Clean
  <2>5. Portable(base) = marked
    BY <2>1
  <2> HIDE DEF marked
  <2>6. Len(marked) <= MaxChars + Len(Mark) /\ Bytes(marked) <= MaxBytes + Len(Mark)
    BY <1>1, <1>2, <1>3, <2>2, <2>3, <2>4
  <2> QED
    BY <2>2, <2>5, <2>6
<1>5. CASE ~IsDeviceName(base)
  <2>1. Portable(base) = base
    BY <1>5 DEF Portable
  <2>2. Len(base) <= MaxChars + Len(Mark) /\ Bytes(base) <= MaxBytes + Len(Mark)
    BY <1>1, <1>2, <1>3
  <2> QED
    BY <1>5, <2>1, <2>2
<1> QED
  BY <1>4, <1>5

LEMMA SanitizedIs ==
  ASSUME NEW input \in Seq(Kinds)
  PROVE  /\ Ended(Sanitize(input)) /\ ~IsDeviceName(Sanitize(input))
         /\ Len(Sanitize(input)) <= MaxChars + Len(Mark)
         /\ Bytes(Sanitize(input)) <= MaxBytes + Len(Mark)
<1> DEFINE r == Collapsed(input)[Len(input)]
           name == TrimEnd(r.text, {Space, "."})
           base == IF name = <<>> THEN Substitute ELSE name
<1>1. Growing(r)
  BY CollapsedIsGrowing
<1>2. Clean(r.text)
      /\ (Fits(r.text) \/ (/\ Len(r.text) > 0 /\ r.text[Len(r.text)] = Space
                           /\ Fits(SubSeq(r.text, 1, Len(r.text) - 1))))
  <2> HIDE DEF r
  <2> QED
    BY <1>1, Zenon DEF Growing
<1>3. Sanitize(input) = Portable(base)
  BY Zenon DEF Sanitize
<1> HIDE DEF r
<1>4. Ended(base) /\ Fits(base)
  <2>1. CASE name = <<>>
    <3>1. Substitute \in Seq(STRING) /\ Substitute # <<>> /\ Letters(Substitute)
          /\ Len(Substitute) <= MaxChars /\ Len(Substitute) <= MaxBytes
      BY NamesAssumption
    <3>2. Substitute \in Seq(Kinds) /\ Len(Substitute) > 0
      BY <3>1, TextsAre
    <3>3. Ended(Substitute) /\ Bytes(Substitute) = Len(Substitute)
      BY <3>1, <3>2, LettersFit
    <3>4. Fits(Substitute)
      BY <3>1, <3>3 DEF Fits
    <3>5. base = Substitute
      BY <2>1
    <3> QED
      BY <3>3, <3>4, <3>5, Zenon
  <2>2. CASE name # <<>>
    <3>1. Ended(name) /\ Fits(name)
      BY <1>2, <2>2, TrimmedName, Zenon
    <3>2. base = name
      BY <2>2
    <3> QED
      BY <3>1, <3>2, Zenon
  <2> QED
    BY <2>1, <2>2
<1> HIDE DEF base
<1> QED
  BY <1>3, <1>4, PortableIs

(* A name that is one already stays as it is.                                *)
LEMMA SanitizedStays ==
  ASSUME NEW text, Ended(text), Fits(text), ~IsDeviceName(text)
  PROVE  Sanitize(text) = text
<1>1. Collapsed(text)[Len(text)].text = text
  BY CleanStays
<1>2. TrimEnd(text, {Space, "."}) = text
  BY EndedStays
<1>3. text # <<>>
  BY DEF Ended
<1> QED
  BY <1>1, <1>2, <1>3, Zenon DEF Sanitize, Portable

LEMMA StrippedIs ==
  ASSUME NEW name \in Seq(Kinds), NEW extension, Len(extension) \in Nat
  PROVE  StripExtension(name, extension) \in Seq(Kinds)
<1> DEFINE rest == Len(name) - Len(extension) - 1
<1>1. CASE rest >= 0
  <2>1. rest \in 0 .. Len(name)
    BY <1>1
  <2>2. SubSeq(name, 1, rest) \in Seq(Kinds)
    BY <2>1, BytesOfStart
  <2> HIDE DEF rest
  <2> QED
    BY <2>2 DEF StripExtension, rest
<1>2. CASE ~(rest >= 0)
  BY <1>2 DEF StripExtension
<1> QED
  BY <1>1, <1>2

-----------------------------------------------------------------------------
(* The names of files.                                                       *)

LEMMA JoinedIs ==
  ASSUME NEW S, NEW stem \in Seq(S), NEW mid \in Seq(S), NEW dot \in S, NEW last \in S
  PROVE  LET name == stem \o mid \o <<dot>> \o <<last>>
         IN  /\ name \in Seq(S) /\ Len(name) = Len(stem) + Len(mid) + 2
             /\ name[Len(name)] = last
             /\ \A i \in 1 .. Len(mid) : name[Len(stem) + i] = mid[i]
<1> DEFINE one == <<dot>>
           two == <<last>>
           a == stem \o mid
           b == a \o one
           c == b \o two
<1>1. Len(stem) \in Nat /\ Len(mid) \in Nat
  OBVIOUS
<1>2. /\ a \in Seq(S) /\ Len(a) = Len(stem) + Len(mid)
      /\ \A i \in 1 .. Len(stem) + Len(mid) : a[i] = IF i <= Len(stem) THEN stem[i] ELSE mid[i - Len(stem)]
  BY ConcatProperties
<1> HIDE DEF a
<1>3. one \in Seq(S) /\ Len(one) = 1 /\ two \in Seq(S) /\ Len(two) = 1 /\ two[1] = last
  OBVIOUS
<1> HIDE DEF one, two
<1>4. /\ b \in Seq(S) /\ Len(b) = Len(a) + 1
      /\ \A i \in 1 .. Len(a) + 1 : b[i] = IF i <= Len(a) THEN a[i] ELSE one[i - Len(a)]
  <2>1. /\ b \in Seq(S) /\ Len(b) = Len(a) + Len(one)
        /\ \A i \in 1 .. Len(a) + Len(one) : b[i] = IF i <= Len(a) THEN a[i] ELSE one[i - Len(a)]
    <3>1. a \in Seq(S) /\ one \in Seq(S)
      BY <1>2, <1>3
    <3> QED
      BY <3>1, ConcatProperties
  <2> HIDE DEF b
  <2> QED
    BY <1>3, <2>1
<1> HIDE DEF b
<1>5. /\ c \in Seq(S) /\ Len(c) = Len(b) + 1
      /\ \A i \in 1 .. Len(b) + 1 : c[i] = IF i <= Len(b) THEN b[i] ELSE two[i - Len(b)]
  <2>1. /\ c \in Seq(S) /\ Len(c) = Len(b) + Len(two)
        /\ \A i \in 1 .. Len(b) + Len(two) : c[i] = IF i <= Len(b) THEN b[i] ELSE two[i - Len(b)]
    BY <1>3, <1>4, ConcatProperties
  <2> HIDE DEF c
  <2> QED
    BY <1>3, <2>1
<1> HIDE DEF c
<1>6. Len(c) = Len(stem) + Len(mid) + 2
  BY <1>1, <1>2, <1>4, <1>5
<1>7. c[Len(c)] = last
  <2>1. Len(b) + 1 \in 1 .. Len(b) + 1 /\ ~(Len(b) + 1 <= Len(b)) /\ (Len(b) + 1) - Len(b) = 1
    BY <1>1, <1>2, <1>4
  <2> QED
    BY <1>3, <1>5, <2>1
<1>8. ASSUME NEW i \in 1 .. Len(mid) PROVE c[Len(stem) + i] = mid[i]
  <2> DEFINE k == Len(stem) + i
  <2>1. /\ k \in 1 .. Len(stem) + Len(mid) /\ ~(k <= Len(stem)) /\ k - Len(stem) = i
        /\ k <= Len(a) /\ k \in 1 .. Len(a) + 1 /\ k <= Len(b) /\ k \in 1 .. Len(b) + 1
    BY <1>1, <1>2, <1>4
  <2> HIDE DEF k
  <2>2. c[k] = b[k] /\ b[k] = a[k] /\ a[k] = mid[i]
    BY <1>2, <1>4, <1>5, <2>1
  <2> QED
    BY <2>2 DEF k
<1> QED
  BY <1>5, <1>6, <1>7, <1>8 DEF a, b, c, one, two

LEMMA LastIs ==
  ASSUME NEW S, NEW text \in Seq(S), NEW last \in S
  PROVE  /\ text \o <<last>> \in Seq(S) /\ Len(text \o <<last>>) = Len(text) + 1
         /\ (text \o <<last>>)[Len(text) + 1] = last
<1> DEFINE one == <<last>>
           c == text \o one
<1>1. one \in Seq(S) /\ Len(one) = 1 /\ one[1] = last /\ Len(text) \in Nat
  OBVIOUS
<1> HIDE DEF one
<1>2. /\ c \in Seq(S) /\ Len(c) = Len(text) + Len(one)
      /\ \A i \in 1 .. Len(text) + Len(one) : c[i] = IF i <= Len(text) THEN text[i] ELSE one[i - Len(text)]
  BY <1>1, ConcatProperties
<1> HIDE DEF c
<1>3. /\ Len(text) + 1 \in 1 .. Len(text) + Len(one) /\ ~(Len(text) + 1 <= Len(text))
      /\ (Len(text) + 1) - Len(text) = 1
  BY <1>1
<1>4. c[Len(text) + 1] = last
  BY <1>1, <1>2, <1>3
<1> QED
  BY <1>1, <1>2, <1>4 DEF c, one

(* A number is written in one way.                                           *)
Numbered == \A i, j \in Nat : ToString(i) = ToString(j) => i = j

LEMMA OutputsDiffer ==
  ASSUME NEW stem \in Seq(Kinds), NEW i \in 0 .. 2, NEW j \in 0 .. 2, i # j, Numbered
  PROVE  /\ OutputName(stem, i, <<"a">>) # OutputName(stem, j, <<"a">>)
         /\ LockName(stem, i, <<"a">>) # OutputName(stem, j, <<"a">>)
<1> DEFINE S == Kinds \union {"(", ")", "a", "yt-media-reserve"} \union {ToString(n) : n \in Nat}
           mid(n) == IF n = 0 THEN <<>> ELSE <<Space, "(", ToString(n), ")">>
           name(n) == OutputName(stem, n, <<"a">>)
           lock(n) == LockName(stem, n, <<"a">>)
<1>1. /\ Space \in S /\ "." \in S /\ "(" \in S /\ ")" \in S /\ "a" \in S /\ "yt-media-reserve" \in S
      /\ \A n \in Nat : ToString(n) \in S
      /\ Kinds \subseteq S
  BY KindsAre
<1>2. stem \in Seq(S)
  BY <1>1, SeqMonotonic
<1> HIDE DEF S
<1>3. ASSUME NEW n \in 0 .. 2
      PROVE  /\ name(n) \in Seq(S) /\ name(n)[Len(name(n))] = "a"
             /\ Len(name(n)) = IF n = 0 THEN Len(stem) + 2 ELSE Len(stem) + 6
             /\ n # 0 => name(n)[Len(stem) + 3] = ToString(n)
  <2> DEFINE m == mid(n)
             out == stem \o m \o <<".">> \o <<"a">>
  <2>1. /\ m \in Seq(S) /\ Len(m) = IF n = 0 THEN 0 ELSE 4
        /\ n # 0 => m[3] = ToString(n)
    <3>1. CASE n = 0
      <4>1. m = <<>>
        BY <3>1
      <4> QED
        BY <3>1, <4>1, EmptySeq
    <3>2. CASE n # 0
      <4>1. m = <<Space, "(", ToString(n), ")">>
        BY <3>2
      <4>2. ToString(n) \in S
        BY <1>1
      <4> HIDE DEF m
      <4> QED
        BY <1>1, <3>2, <4>1, <4>2
    <3> QED
      BY <3>1, <3>2
  <2>2. name(n) = out
    BY Zenon DEF OutputName
  <2> HIDE DEF m
  <2>3. /\ out \in Seq(S) /\ Len(out) = Len(stem) + Len(m) + 2
        /\ out[Len(out)] = "a"
        /\ \A k \in 1 .. Len(m) : out[Len(stem) + k] = m[k]
    <3>1. stem \in Seq(S) /\ m \in Seq(S) /\ "." \in S /\ "a" \in S
      BY <1>1, <1>2, <2>1
    <3> HIDE DEF mid, name, lock
    <3> QED
      BY <3>1, JoinedIs
  <2> HIDE DEF out
  <2>4. Len(stem) \in Nat
    BY <1>2
  <2>5. n # 0 => out[Len(stem) + 3] = ToString(n)
    <3>1. n # 0 => 3 \in 1 .. Len(m)
      BY <2>1
    <3> QED
      BY <2>1, <2>3, <3>1
  <2>6. Len(out) = IF n = 0 THEN Len(stem) + 2 ELSE Len(stem) + 6
    BY <2>1, <2>3, <2>4
  <2> QED
    BY <2>2, <2>3, <2>5, <2>6, Zenon
<1>4. ASSUME NEW n \in 0 .. 2
      PROVE  lock(n)[Len(lock(n))] = "yt-media-reserve"
  <2> DEFINE start == <<".">> \o name(n)
  <2>1. lock(n) = start \o <<"yt-media-reserve">>
    BY Zenon DEF LockName
  <2>2. start \in Seq(S)
    <3>1. <<".">> \in Seq(S)
      BY <1>1
    <3> HIDE DEF name
    <3> QED
      BY <1>3, <3>1, ConcatProperties
  <2> HIDE DEF start, name
  <2>3. Len(lock(n)) = Len(start) + 1 /\ lock(n)[Len(start) + 1] = "yt-media-reserve"
    <3>1. "yt-media-reserve" \in S
      BY <1>1
    <3> DEFINE whole == start \o <<"yt-media-reserve">>
    <3>2. Len(whole) = Len(start) + 1 /\ whole[Len(start) + 1] = "yt-media-reserve"
      BY <2>2, <3>1, LastIs
    <3>3. lock(n) = whole
      BY <2>1
    <3> HIDE DEF whole, lock
    <3> QED
      BY <3>2, <3>3
  <2> QED
    BY <2>3, Zenon
<1>5. name(i)[Len(name(i))] = "a" /\ name(j)[Len(name(j))] = "a"
  BY <1>3
<1>6. lock(i) # name(j)
  <2>1. "yt-media-reserve" # "a"
    OBVIOUS
  <2>2. lock(i)[Len(lock(i))] = "yt-media-reserve"
    BY <1>4, Zenon
  <2> HIDE DEF lock, name
  <2> QED
    BY <1>5, <2>1, <2>2
<1>7. name(i) # name(j)
  <2>1. Len(stem) \in Nat /\ i \in Nat /\ j \in Nat
    BY <1>2
  <2>2. /\ Len(name(i)) = IF i = 0 THEN Len(stem) + 2 ELSE Len(stem) + 6
        /\ Len(name(j)) = IF j = 0 THEN Len(stem) + 2 ELSE Len(stem) + 6
        /\ i # 0 => name(i)[Len(stem) + 3] = ToString(i)
        /\ j # 0 => name(j)[Len(stem) + 3] = ToString(j)
    BY <1>3
  <2>3. ToString(i) # ToString(j)
    BY <2>1 DEF Numbered
  <2> HIDE DEF name
  <2> QED
    BY <2>1, <2>2, <2>3
<1> QED
  BY <1>6, <1>7 DEF name, lock

(* The letters of an identity, no more than there may be.                    *)
Kept(text) ==
    LET kept[n \in 0 .. Len(text)] ==
            IF n = 0 THEN <<>>
            ELSE IF text[n] \in {".", Space, "/", "w"} THEN kept[n - 1]
            ELSE Append(kept[n - 1], text[n])
    IN  kept

LEMMA KeptExists ==
  ASSUME NEW text \in Seq(Kinds)
  PROVE  Kept(text) = [n \in 0 .. Len(text) |->
                         IF n = 0 THEN <<>>
                         ELSE IF text[n] \in {".", Space, "/", "w"} THEN Kept(text)[n - 1]
                         ELSE Append(Kept(text)[n - 1], text[n])]
<1> DEFINE Step(f, n) == IF n = 0 THEN <<>>
                         ELSE IF text[n] \in {".", Space, "/", "w"} THEN f[n - 1]
                         ELSE Append(f[n - 1], text[n])
           S == {n \in Nat : \E f : f = [k \in 0 .. n |-> Step(f, k)]}
<1>1. 0 \in S
  <2>1. [k \in {0} |-> <<>>] = [k \in 0 .. 0 |-> Step([j \in {0} |-> <<>>], k)]
    OBVIOUS
  <2> QED
    BY <2>1
<1>2. ASSUME NEW n \in Nat, n \in S PROVE n + 1 \in S
  <2>1. PICK f : f = [k \in 0 .. n |-> Step(f, k)]
    BY <1>2
  <2>2. \A k \in 0 .. n : f[k] = Step(f, k)
    <3> HIDE DEF Step
    <3> QED
      BY <2>1
  <2> DEFINE next == IF text[n + 1] \in {".", Space, "/", "w"} THEN f[n]
                     ELSE Append(f[n], text[n + 1])
             g == [k \in 0 .. n + 1 |-> IF k = n + 1 THEN next ELSE f[k]]
  <2>3. ASSUME NEW k \in 0 .. n + 1 PROVE g[k] = Step(g, k)
    <3>1. CASE k = n + 1
      <4>1. g[k] = next /\ g[n] = f[n] /\ k - 1 = n /\ k # 0
        BY <3>1
      <4> HIDE DEF g
      <4> QED
        BY <3>1, <4>1
    <3>2. CASE k # n + 1
      <4>1. k \in 0 .. n /\ g[k] = f[k] /\ f[k] = Step(f, k)
        BY <2>2, <3>2
      <4>2. k # 0 => g[k - 1] = f[k - 1]
        BY <3>2
      <4> HIDE DEF g
      <4> QED
        BY <4>1, <4>2
    <3> QED
      BY <3>1, <3>2
  <2>4. g = [k \in 0 .. n + 1 |-> Step(g, k)]
    BY <2>3
  <2>5. \E h : h = [k \in 0 .. n + 1 |-> Step(h, k)]
    <3> HIDE DEF g, Step
    <3> QED
      BY <2>4, Zenon
  <2>6. n + 1 \in Nat
    OBVIOUS
  <2> HIDE DEF Step
  <2> QED
    BY <2>5, <2>6, Zenon
<1>3. Nat \subseteq S
  <2> HIDE DEF S
  <2> QED
    BY <1>1, <1>2, NatInductionOn
<1>4. \E f : f = [k \in 0 .. Len(text) |-> Step(f, k)]
  <2>1. Len(text) \in Nat
    OBVIOUS
  <2> QED
    BY <1>3, <2>1
<1>5. Kept(text) = CHOOSE f : f = [k \in 0 .. Len(text) |-> Step(f, k)]
  BY DEF Kept
<1>6. Kept(text) = [k \in 0 .. Len(text) |-> Step(Kept(text), k)]
  <2> HIDE DEF Step
  <2> QED
    BY <1>4, <1>5, Zenon
<1> QED
  BY <1>6, Zenon

LEMMA KeptIs ==
  ASSUME NEW text \in Seq(Kinds)
  PROVE  Kept(text)[Len(text)] \in Seq(Kinds)
<1> DEFINE kept == Kept(text)
           Gap(n) == text[n] \in {".", Space, "/", "w"}
           Step(n) == IF n = 0 THEN <<>> ELSE IF Gap(n) THEN kept[n - 1] ELSE Append(kept[n - 1], text[n])
           S == {n \in Nat : n <= Len(text) => kept[n] \in Seq(Kinds)}
<1>1. kept = [n \in 0 .. Len(text) |-> Step(n)]
  BY KeptExists, Zenon
<1> HIDE DEF kept, Gap
<1>2. \A n \in 0 .. Len(text) : kept[n] = Step(n)
  BY <1>1
<1>3. Len(text) \in Nat
  OBVIOUS
<1>4. 0 \in S
  <2>1. 0 \in 0 .. Len(text)
    BY <1>3
  <2>2. kept[0] = <<>>
    BY <1>2, <2>1
  <2>3. kept[0] \in Seq(Kinds)
    BY <2>2, EmptySeq
  <2> QED
    BY <2>3
<1>5. ASSUME NEW n \in Nat, n \in S PROVE n + 1 \in S
  <2> SUFFICES ASSUME n + 1 <= Len(text) PROVE kept[n + 1] \in Seq(Kinds)
    OBVIOUS
  <2>1. n + 1 \in 0 .. Len(text) /\ n + 1 # 0 /\ (n + 1) - 1 = n /\ n + 1 \in 1 .. Len(text)
    BY <1>3
  <2>2. kept[n] \in Seq(Kinds)
    BY <1>3, <1>5
  <2>3. kept[n + 1] = IF Gap(n + 1) THEN kept[n] ELSE Append(kept[n], text[n + 1])
    BY <1>2, <2>1
  <2>4. text[n + 1] \in Kinds
    BY <2>1, ElementOfSeq
  <2>5. Append(kept[n], text[n + 1]) \in Seq(Kinds)
    BY <2>2, <2>4, AppendIs
  <2> QED
    BY <2>2, <2>3, <2>5
<1> HIDE DEF S
<1>6. Nat \subseteq S
  BY <1>4, <1>5, NatInductionOn
<1>7. kept[Len(text)] \in Seq(Kinds)
  BY <1>3, <1>6 DEF S
<1> QED
  BY <1>7 DEF kept

LEMMA TokenIs ==
  ASSUME NEW P, Kinds \subseteq P, NEW text \in Seq(Kinds), NEW limit \in Nat,
         NEW otherwise \in Seq(P)
  PROVE  Token(text, limit, otherwise) \in Seq(P)
<1> DEFINE whole == Kept(text)[Len(text)]
           n == IF Len(whole) < limit THEN Len(whole) ELSE limit
<1>1. Token(text, limit, otherwise) = IF whole = <<>> THEN otherwise ELSE SubSeq(whole, 1, n)
  BY Zenon DEF Token, Kept
<1>2. whole \in Seq(Kinds)
  BY KeptIs
<1> HIDE DEF whole
<1>3. n \in 0 .. Len(whole)
  BY <1>2
<1> HIDE DEF n
<1>4. SubSeq(whole, 1, n) \in Seq(Kinds)
  BY <1>2, <1>3, BytesOfStart
<1>5. SubSeq(whole, 1, n) \in Seq(P)
  BY <1>4, SeqMonotonic
<1> QED
  BY <1>1, <1>5, Zenon

LEMMA StartOfConcat ==
  ASSUME NEW P, NEW a \in Seq(P), NEW b \in Seq(P)
  PROVE  /\ a \o b \in Seq(P) /\ Len(a) <= Len(a \o b)
         /\ \A k \in 1 .. Len(a) : (a \o b)[k] = a[k]
<1> DEFINE c == a \o b
<1>1. /\ c \in Seq(P) /\ Len(c) = Len(a) + Len(b)
      /\ \A k \in 1 .. Len(a) + Len(b) : c[k] = IF k <= Len(a) THEN a[k] ELSE b[k - Len(a)]
  BY ConcatProperties
<1> HIDE DEF c
<1>2. Len(a) \in Nat /\ Len(b) \in Nat
  OBVIOUS
<1>3. Len(a) <= Len(c)
  BY <1>1, <1>2
<1>4. ASSUME NEW k \in 1 .. Len(a) PROVE c[k] = a[k]
  <2>1. k \in 1 .. Len(a) + Len(b) /\ k <= Len(a)
    BY <1>2
  <2> QED
    BY <1>1, <2>1
<1> QED
  BY <1>1, <1>3, <1>4 DEF c

(* The parts the names of an attempt are made of.                            *)
Parts == Kinds \union {"format", "job", "yt-media", "source", "work", "owner.json", "a"}
         \union {ToString(n) : n \in Nat}

LEMMA PartsAre ==
  /\ Kinds \subseteq Parts /\ "format" \in Parts /\ "job" \in Parts /\ "yt-media" \in Parts
  /\ "source" \in Parts /\ "work" \in Parts /\ "owner.json" \in Parts /\ "a" \in Parts
  /\ "." \in Parts /\ \A n \in Nat : ToString(n) \in Parts
BY KindsAre DEF Parts

LEMMA SourceIs ==
  ASSUME NEW index \in Nat, NEW format \in Seq(Kinds), NEW container \in Seq(Kinds)
  PROVE  /\ SourceName("job", index, format, container) \in Seq(Parts)
         /\ SourceName("job", index, format, container)[3] = "source"
         /\ SourceName("job", index, format, container)[4] = ToString(index)
<1> DEFINE head == <<"yt-media", "job", "source", ToString(index)>>
           first == Token(format, MaxToken, <<"format">>)
           second == Token(container, MaxContainer, Substitute)
           dot == <<".">>
           a == head \o first
           b == a \o dot
           c == b \o second
<1>1. /\ head \in Seq(Parts) /\ Len(head) = 4 /\ head[3] = "source" /\ head[4] = ToString(index)
  BY PartsAre
<1>2. first \in Seq(Parts)
  <2>1. <<"format">> \in Seq(Parts) /\ MaxToken \in Nat
    BY PartsAre, NamesAssumption
  <2> QED
    BY <2>1, PartsAre, TokenIs
<1>3. second \in Seq(Parts)
  <2>1. Substitute \in Seq(Kinds) /\ MaxContainer \in Nat
    BY TextsAre, NamesAssumption
  <2>2. Substitute \in Seq(Parts)
    BY <2>1, PartsAre, SeqMonotonic
  <2> QED
    BY <2>1, <2>2, PartsAre, TokenIs
<1>4. dot \in Seq(Parts)
  BY PartsAre
<1>5. SourceName("job", index, format, container) = c
  BY Zenon DEF SourceName
<1> HIDE DEF head, first, second, dot
<1>6. a \in Seq(Parts) /\ 4 <= Len(a) /\ a[3] = head[3] /\ a[4] = head[4]
  <2>1. /\ a \in Seq(Parts) /\ Len(head) <= Len(a)
        /\ \A k \in 1 .. Len(head) : a[k] = head[k]
    BY <1>1, <1>2, StartOfConcat
  <2> HIDE DEF a
  <2>2. 3 \in 1 .. Len(head) /\ 4 \in 1 .. Len(head)
    BY <1>1
  <2> QED
    BY <1>1, <2>1, <2>2
<1> HIDE DEF a
<1>7. b \in Seq(Parts) /\ 4 <= Len(b) /\ b[3] = a[3] /\ b[4] = a[4]
  <2>1. /\ b \in Seq(Parts) /\ Len(a) <= Len(b)
        /\ \A k \in 1 .. Len(a) : b[k] = a[k]
    BY <1>4, <1>6, StartOfConcat
  <2> HIDE DEF b
  <2>2. 3 \in 1 .. Len(a) /\ 4 \in 1 .. Len(a) /\ Len(a) \in Nat /\ Len(b) \in Nat
    BY <1>6, <2>1
  <2> QED
    BY <1>6, <2>1, <2>2
<1> HIDE DEF b
<1>8. c \in Seq(Parts) /\ c[3] = b[3] /\ c[4] = b[4]
  <2>1. /\ c \in Seq(Parts)
        /\ \A k \in 1 .. Len(b) : c[k] = b[k]
    BY <1>3, <1>7, StartOfConcat
  <2> HIDE DEF c
  <2>2. 3 \in 1 .. Len(b) /\ 4 \in 1 .. Len(b)
    BY <1>7
  <2> QED
    BY <2>1, <2>2
<1> HIDE DEF c
<1> QED
  BY <1>1, <1>5, <1>6, <1>7, <1>8

LEMMA PurposesDiffer ==
  ASSUME NEW n \in Nat, NEW names, Numbered,
         \A i \in 1 .. n : names[i][3] = "source" /\ names[i][4] = ToString(i),
         names[n + 1][3] = "work", names[n + 2][3] = "owner.json"
  PROVE  \A i, j \in 1 .. n + 2 : i # j => names[i] # names[j]
<1> SUFFICES ASSUME NEW i \in 1 .. n + 2, NEW j \in 1 .. n + 2, names[i] = names[j]
             PROVE  i = j
  OBVIOUS
<1>1. "source" # "work" /\ "source" # "owner.json" /\ "work" # "owner.json"
  OBVIOUS
<1>2. /\ i \in 1 .. n \/ i = n + 1 \/ i = n + 2
      /\ j \in 1 .. n \/ j = n + 1 \/ j = n + 2
  OBVIOUS
<1>3. ASSUME i \in 1 .. n, j \in 1 .. n PROVE i = j
  <2>1. ToString(i) = ToString(j) /\ i \in Nat /\ j \in Nat
    BY <1>3
  <2> QED
    BY <2>1 DEF Numbered
<1>4. ASSUME NEW k \in 1 .. n + 2
      PROVE  /\ k \in 1 .. n => names[k][3] = "source"
             /\ k = n + 1 => names[k][3] = "work"
             /\ k = n + 2 => names[k][3] = "owner.json"
  OBVIOUS
<1>5. names[i][3] = names[j][3]
  OBVIOUS
<1> QED
  BY <1>1, <1>2, <1>3, <1>4, <1>5

LEMMA TwoMore ==
  ASSUME NEW S, NEW n \in Nat, NEW first \in Seq(S), Len(first) = n, NEW x \in S, NEW y \in S
  PROVE  LET all == first \o <<x, y>>
         IN  /\ DOMAIN all = 1 .. n + 2
             /\ \A i \in 1 .. n : all[i] = first[i]
             /\ all[n + 1] = x /\ all[n + 2] = y
<1> DEFINE rest == <<x, y>>
           all == first \o rest
<1>1. rest \in Seq(S) /\ Len(rest) = 2 /\ rest[1] = x /\ rest[2] = y
  OBVIOUS
<1> HIDE DEF rest
<1>2. /\ all \in Seq(S) /\ Len(all) = Len(first) + Len(rest)
      /\ \A i \in 1 .. Len(first) + Len(rest) :
            all[i] = IF i <= Len(first) THEN first[i] ELSE rest[i - Len(first)]
  BY <1>1, ConcatProperties
<1> HIDE DEF all
<1>3. DOMAIN all = 1 .. n + 2
  BY <1>1, <1>2, LenProperties
<1>4. \A i \in 1 .. n + 2 : all[i] = IF i <= n THEN first[i] ELSE rest[i - n]
  BY <1>1, <1>2
<1>5. \A i \in 1 .. n : all[i] = first[i]
  BY <1>4
<1>6. all[n + 1] = x
  <2>1. n + 1 \in 1 .. n + 2 /\ ~(n + 1 <= n) /\ (n + 1) - n = 1
    OBVIOUS
  <2> QED
    BY <1>1, <1>4, <2>1
<1>7. all[n + 2] = y
  <2>1. n + 2 \in 1 .. n + 2 /\ ~(n + 2 <= n) /\ (n + 2) - n = 2
    OBVIOUS
  <2> QED
    BY <1>1, <1>4, <2>1
<1> QED
  BY <1>3, <1>5, <1>6, <1>7 DEF all, rest

(* The files of one attempt: the third part tells what a file is for and the *)
(* fourth which source it holds.                                             *)
LEMMA FilesDiffer ==
  ASSUME NEW formats \in Seq(Seq(Kinds)), NEW containers \in Seq(Seq(Kinds)),
         Len(containers) = Len(formats), Numbered
  PROVE  LET names == AttemptNames("job", formats, containers, <<"a">>)
         IN  \A i, j \in DOMAIN names : i # j => names[i] # names[j]
<1> DEFINE n == Len(formats)
           S == Seq(Parts)
           sources == [i \in DOMAIN formats |-> SourceName("job", i, formats[i], containers[i])]
           work == WorkName("job", <<"a">>)
           owner == OwnerName("job")
           rest == <<work, owner>>
           names == sources \o rest
<1>1. n \in Nat /\ DOMAIN formats = 1 .. n
  OBVIOUS
<1>2. ASSUME NEW i \in 1 .. n
      PROVE  /\ sources[i] \in S /\ sources[i][3] = "source" /\ sources[i][4] = ToString(i)
  <2>1. i \in Nat /\ formats[i] \in Seq(Kinds) /\ containers[i] \in Seq(Kinds)
    BY <1>1
  <2> DEFINE one == SourceName("job", i, formats[i], containers[i])
  <2>2. sources[i] = one
    BY <1>1
  <2>3. one \in Seq(Parts) /\ one[3] = "source" /\ one[4] = ToString(i)
    BY <2>1, SourceIs
  <2> HIDE DEF sources, one
  <2> QED
    BY <2>2, <2>3 DEF one
<1>3. work \in S /\ work[3] = "work"
  <2> DEFINE start == <<"yt-media", "job", "work", ".">>
             last == <<"a">>
  <2>1. start \in S /\ last \in S /\ Len(start) = 4 /\ start[3] = "work"
    BY PartsAre
  <2>2. work = start \o last
    BY Zenon DEF WorkName
  <2> HIDE DEF start, last, work
  <2>3. /\ start \o last \in Seq(Parts)
        /\ \A k \in 1 .. Len(start) : (start \o last)[k] = start[k]
    BY <2>1, StartOfConcat
  <2>4. 3 \in 1 .. Len(start)
    BY <2>1
  <2>5. (start \o last)[3] = "work"
    BY <2>1, <2>3, <2>4
  <2> QED
    BY <2>2, <2>3, <2>5, Zenon
<1>4. owner \in S /\ owner[3] = "owner.json"
  BY PartsAre DEF OwnerName
<1>5. AttemptNames("job", formats, containers, <<"a">>) = names
  BY Zenon DEF AttemptNames
<1>6. sources \in Seq(S) /\ Len(sources) = n
  <2>1. sources \in [1 .. n -> S]
    <3>1. DOMAIN sources = 1 .. n
      BY <1>1
    <3>2. sources = [i \in 1 .. n |-> sources[i]]
      BY <1>1
    <3> HIDE DEF sources, S
    <3> QED
      BY <1>2, <3>2
  <2> HIDE DEF sources, S, n
  <2> QED
    BY <1>1, <2>1
<1> HIDE DEF sources, work, owner, S
<1>7. /\ DOMAIN names = 1 .. n + 2
      /\ \A i \in 1 .. n : names[i] = sources[i]
      /\ names[n + 1] = work /\ names[n + 2] = owner
  <2>1. n \in Nat /\ sources \in Seq(S) /\ Len(sources) = n /\ work \in S /\ owner \in S
    BY <1>1, <1>3, <1>4, <1>6
  <2> HIDE DEF n
  <2> QED
    BY <2>1, TwoMore
<1> HIDE DEF names, n
<1>8. /\ \A i \in 1 .. n : names[i][3] = "source" /\ names[i][4] = ToString(i)
      /\ names[n + 1][3] = "work" /\ names[n + 2][3] = "owner.json"
  BY <1>2, <1>3, <1>4, <1>7, Zenon
<1>9. \A i, j \in 1 .. n + 2 : i # j => names[i] # names[j]
  BY <1>1, <1>8, PurposesDiffer, Zenon
<1> QED
  BY <1>5, <1>7, <1>9, Zenon

-----------------------------------------------------------------------------
(* What is asked about names: texts of characters, a container per format.   *)
AskedNames ==
    /\ probe.about = "name" => probe.text \in Seq(Kinds)
    /\ probe.about = "names" =>
          /\ probe.formats \in Seq(Seq(Kinds)) /\ probe.containers \in Seq(Seq(Kinds))
          /\ Len(probe.containers) = Len(probe.formats)

(* Whatever name is asked for, of whatever length and with whatever          *)
(* characters in it, what is made of it is a name every system takes: not    *)
(* empty, without a separator or a gap at its ends, no device, short enough, *)
(* and the same when it is made a name again; the outputs and locks made of  *)
(* it differ, and so do the files of one attempt, however many sources it    *)
(* has and whatever the tool calls their formats (name.rs:24,                *)
(* service.rs:1140).                                                         *)
THEOREM NamesArePortableAlways ==
  ASSUME AskedNames, Numbered
  PROVE  NamesArePortable
<1>1. ASSUME probe.about = "name"
      PROVE  LET stem == Stem(probe.text, <<"a">>)
             IN  /\ stem # <<>> /\ "/" \notin Range(stem)
                 /\ stem[1] # " " /\ stem[Len(stem)] \notin {" ", "."}
                 /\ ~IsDeviceName(stem)
                 /\ Len(stem) <= MaxChars + Len(Mark) /\ Bytes(stem) <= MaxBytes + Len(Mark)
                 /\ Len(stem) <= MaxChars /\ Bytes(stem) <= MaxBytes => Sanitize(stem) = stem
                 /\ \A i, j \in 0 .. 2 : i # j =>
                       /\ OutputName(stem, i, <<"a">>) # OutputName(stem, j, <<"a">>)
                       /\ LockName(stem, i, <<"a">>) # OutputName(stem, j, <<"a">>)
  <2> DEFINE text == StripExtension(probe.text, <<"a">>)
             stem == Stem(probe.text, <<"a">>)
  <2>1. text \in Seq(Kinds)
    <3>1. probe.text \in Seq(Kinds)
      BY <1>1 DEF AskedNames
    <3>2. Len(<<"a">>) \in Nat
      OBVIOUS
    <3> QED
      BY <3>1, <3>2, StrippedIs
  <2>2. stem = Sanitize(text)
    BY Zenon DEF Stem
  <2> HIDE DEF text
  <2>3. /\ Ended(stem) /\ ~IsDeviceName(stem)
        /\ Len(stem) <= MaxChars + Len(Mark) /\ Bytes(stem) <= MaxBytes + Len(Mark)
    BY <2>1, <2>2, SanitizedIs
  <2> HIDE DEF stem
  <2>4. /\ stem \in Seq(Kinds) /\ Len(stem) \in Nat /\ Len(stem) > 0
        /\ \A i \in 1 .. Len(stem) : stem[i] # "/"
        /\ stem[1] # Space /\ stem[Len(stem)] \notin {Space, "."}
    BY <2>3 DEF Ended, Clean
  <2>5. stem # <<>> /\ "/" \notin Range(stem)
    <3>1. DOMAIN stem = 1 .. Len(stem)
      BY <2>4
    <3> QED
      BY <2>4, <3>1 DEF Range
  <2>6. stem[1] # " " /\ stem[Len(stem)] \notin {" ", "."}
    BY <2>4, Zenon DEF Space
  <2>7. ASSUME Len(stem) <= MaxChars, Bytes(stem) <= MaxBytes PROVE Sanitize(stem) = stem
    <3>1. Fits(stem)
      BY <2>7 DEF Fits
    <3> QED
      BY <2>3, <3>1, SanitizedStays
  <2>8. \A i, j \in 0 .. 2 : i # j =>
           /\ OutputName(stem, i, <<"a">>) # OutputName(stem, j, <<"a">>)
           /\ LockName(stem, i, <<"a">>) # OutputName(stem, j, <<"a">>)
    BY <2>4, OutputsDiffer
  <2> QED
    BY <2>3, <2>5, <2>6, <2>7, <2>8, Zenon DEF stem
<1>2. ASSUME probe.about = "names"
      PROVE  LET names == AttemptNames("job", probe.formats, probe.containers, <<"a">>)
             IN  \A i, j \in DOMAIN names : i # j => names[i] # names[j]
  <2>1. /\ probe.formats \in Seq(Seq(Kinds)) /\ probe.containers \in Seq(Seq(Kinds))
        /\ Len(probe.containers) = Len(probe.formats)
    BY <1>2 DEF AskedNames
  <2> QED
    BY <2>1, FilesDiffer
<1> QED
  BY <1>1, <1>2, Zenon DEF NamesArePortable

(* What the probes of a run ask is such a question.                          *)
Asked == AskedNames /\ "about" \in DOMAIN probe

LEMMA TextsOfRun ==
  ASSUME NEW n \in Nat, NEW text \in Texts(n)
  PROVE  text \in Seq(Kinds)
<1>1. PICK k \in 0 .. n : text \in [1 .. k -> Characters]
  BY DEF Texts
<1>2. k \in Nat
  OBVIOUS
<1>3. Characters \subseteq Kinds
  BY DEF Kinds
<1>4. text \in [1 .. k -> Kinds]
  <2> HIDE DEF Kinds
  <2> QED
    BY <1>1, <1>3, Zenon
<1> QED
  BY <1>2, <1>4

LEMMA PairIs ==
  ASSUME NEW T, NEW pair \in [1 .. 2 -> T]
  PROVE  pair \in Seq(T) /\ Len(pair) = 2
<1>1. PICK n \in Nat : n = 2
  OBVIOUS
<1>2. pair \in [1 .. n -> T]
  BY <1>1
<1>3. pair \in Seq(T) /\ Len(pair) = n
  BY <1>2
<1> QED
  BY <1>1, <1>3

LEMMA OtherQuestion ==
  ASSUME "about" \in DOMAIN probe', probe'.about # "name", probe'.about # "names"
  PROVE  Asked'
BY DEF Asked, AskedNames

LEMMA AskedStays ==
  ASSUME MaxName \in Nat, Asked, [ProbeNext]_probe
  PROVE  Asked'
<1>1. CASE AskName
  <2>1. PICK text \in Texts(MaxName) : probe' = [about |-> "name", text |-> text]
    BY <1>1 DEF AskName
  <2>2. text \in Seq(Kinds)
    BY TextsOfRun
  <2> QED
    BY <2>1, <2>2 DEF Asked, AskedNames
<1>2. CASE AskNames
  <2>1. PICK formats \in [1 .. 2 -> Texts(2)], containers \in [1 .. 2 -> {<<"a">>, <<"/">>}] :
           probe' = [about |-> "names", formats |-> formats, containers |-> containers]
    BY <1>2, Zenon DEF AskNames
  <2>2. \A text \in Texts(2) : text \in Seq(Kinds)
    <3>1. 2 \in Nat
      OBVIOUS
    <3> QED
      BY <3>1, TextsOfRun, Zenon
  <2>3. <<"a">> \in Seq(Kinds) /\ <<"/">> \in Seq(Kinds)
    <3>1. "a" \in Kinds /\ "/" \in Kinds
      BY Zenon DEF Kinds, Characters
    <3> QED
      BY <3>1
  <2> DEFINE T == Seq(Kinds)
  <2>4. formats \in [1 .. 2 -> T] /\ containers \in [1 .. 2 -> T]
    BY <2>2, <2>3, Zenon
  <2> HIDE DEF T
  <2>5. /\ formats \in Seq(T) /\ containers \in Seq(T)
        /\ Len(formats) = 2 /\ Len(containers) = 2
    BY <2>4, PairIs
  <2> QED
    BY <2>1, <2>5 DEF T, Asked, AskedNames
<1>3. CASE AskFormats \/ AskMedia \/ AskAnswer
  <2>1. \E answer : probe' = [about |-> "media", answer |-> answer]
    BY <1>3, Zenon DEF AskFormats, AskMedia, AskAnswer, ProbeMedia
  <2> QED
    BY <2>1, OtherQuestion
<1>4. CASE Begin
  <2>1. "about" \in DOMAIN probe' /\ probe'.about = "download"
    BY <1>4 DEF Begin
  <2> QED
    BY <2>1, OtherQuestion
<1>5. CASE BeginConversion
  <2>1. probe' = [about |-> "conversion", reads |-> <<>>]
    BY <1>5 DEF BeginConversion
  <2> QED
    BY <2>1, OtherQuestion
<1>6. CASE ReadMore \/ ConvertMore
  <2>1. probe.about \in {"download", "conversion"}
    BY <1>6, Zenon DEF ReadMore, ConvertMore, MayRead
  <2>2. \E reads : probe' = [probe EXCEPT !.reads = reads]
    BY <1>6, Zenon DEF ReadMore, ConvertMore
  <2>3. "about" \in DOMAIN probe' /\ probe'.about = probe.about
    BY <2>2 DEF Asked
  <2> QED
    BY <2>1, <2>3, OtherQuestion
<1>7. CASE AskUpdate
  <2>1. \E update : probe' = [about |-> "update", update |-> update]
    BY <1>7, Zenon DEF AskUpdate
  <2> QED
    BY <2>1, OtherQuestion
<1>8. CASE AskTools
  <2>1. \E config : probe' = [about |-> "tools", config |-> config]
    BY <1>8, Zenon DEF AskTools
  <2> QED
    BY <2>1, OtherQuestion
<1>9. CASE UNCHANGED probe
  BY <1>9 DEF Asked, AskedNames
<1> QED
  BY <1>1, <1>2, <1>3, <1>4, <1>5, <1>6, <1>7, <1>8, <1>9 DEF ProbeNext

(* The names every probe of a run makes are portable and different, however  *)
(* long the texts it asks about may be (name.rs:24, service.rs:1140).        *)
THEOREM NamesStayPortable ==
  ASSUME Numbered, MaxName \in Nat
  PROVE  ProbeSpec => []NamesArePortable
<1>1. ProbeInit => Asked
  BY DEF ProbeInit, Nothing, Asked, AskedNames
<1>2. Asked /\ [ProbeNext]_probe => Asked'
  BY AskedStays
<1>3. Asked => NamesArePortable
  BY NamesArePortableAlways DEF Asked
<1> QED
  BY <1>1, <1>2, <1>3, PTL DEF ProbeSpec

-----------------------------------------------------------------------------
(* Which of two formats is the better one.                                   *)

(* The first number that differs tells.                                      *)
Ahead(a, b, i) == a[i] > b[i] /\ \A j \in 1 .. i - 1 : a[j] = b[j]

LEMMA BeatsIs ==
  ASSUME NEW n \in Nat, NEW a \in [1 .. n -> Int], NEW b \in [1 .. n -> Int]
  PROVE  Beats(a, b) <=> \E i \in 1 .. n : Ahead(a, b, i)
<1>1. DOMAIN a = 1 .. n
  OBVIOUS
<1> QED
  BY <1>1, Zenon DEF Beats, Ahead

LEMMA BeatsIsTotal ==
  ASSUME NEW n \in Nat, NEW a \in [1 .. n -> Int], NEW b \in [1 .. n -> Int], a # b
  PROVE  Beats(a, b) \/ Beats(b, a)
<1> DEFINE D == {i \in 1 .. n : a[i] # b[i]}
<1>1. D # {} /\ D \in SUBSET Nat
  OBVIOUS
<1>2. PICK i \in D : \A j \in D : i <= j
  BY <1>1, Least
<1>3. i \in 1 .. n /\ a[i] # b[i] /\ \A j \in 1 .. i - 1 : a[j] = b[j]
  BY <1>2
<1>4. Ahead(a, b, i) \/ Ahead(b, a, i)
  BY <1>3 DEF Ahead
<1> QED
  BY <1>3, <1>4, BeatsIs

LEMMA BeatsIsTransitive ==
  ASSUME NEW n \in Nat, NEW a \in [1 .. n -> Int], NEW b \in [1 .. n -> Int],
         NEW c \in [1 .. n -> Int], Beats(a, b), Beats(b, c)
  PROVE  Beats(a, c)
<1>1. PICK i \in 1 .. n : Ahead(a, b, i)
  BY BeatsIs
<1>2. PICK k \in 1 .. n : Ahead(b, c, k)
  BY BeatsIs
<1>3. CASE i <= k
  <2>1. Ahead(a, c, i)
    BY <1>1, <1>2, <1>3 DEF Ahead
  <2> QED
    BY <2>1, BeatsIs
<1>4. CASE k < i
  <2>1. Ahead(a, c, k)
    BY <1>1, <1>2, <1>4 DEF Ahead
  <2> QED
    BY <2>1, BeatsIs
<1> QED
  BY <1>3, <1>4

LEMMA BeatsIsStrict ==
  ASSUME NEW n \in Nat, NEW a \in [1 .. n -> Int]
  PROVE  ~Beats(a, a)
  BY BeatsIs DEF Ahead

(* A finite set whose members have scores of their own has a best one.       *)
LEMMA BestExists ==
  ASSUME NEW S, IsFiniteSet(S), S # {}, NEW n \in Nat, NEW score \in [S -> [1 .. n -> Int]],
         \A f, g \in S : score[f] = score[g] => f = g
  PROVE  \E f \in S : \A g \in S \ {f} : Beats(score[f], score[g])
<1> DEFINE Over(f) == {g \in S : Beats(score[g], score[f])}
           R == StrictSubsetOrdering(S)
           T == {U \in SUBSET S : \E f \in S : U = Over(f)}
<1>1. IsWellFoundedOn(R, FiniteSubsetsOf(S))
  BY FS_StrictSubsetOrderingWellFounded
<1>2. T \subseteq FiniteSubsetsOf(S)
  <2> SUFFICES ASSUME NEW U \in T PROVE U \in FiniteSubsetsOf(S)
    OBVIOUS
  <2>1. U \subseteq S
    OBVIOUS
  <2>2. IsFiniteSet(U)
    BY <2>1, FS_Subset
  <2> QED
    BY <2>1, <2>2 DEF FiniteSubsetsOf
<1>3. T # {}
  <2>1. PICK f \in S : TRUE
    OBVIOUS
  <2>2. Over(f) \in T
    OBVIOUS
  <2> QED
    BY <2>2
<1> HIDE DEF T, R
<1>4. PICK U \in T : \A V \in T : <<V, U>> \notin R
  BY <1>1, <1>2, <1>3, WFMin
<1>5. PICK f \in S : U = Over(f)
  BY DEF T
<1>6. ASSUME NEW g \in S \ {f} PROVE Beats(score[f], score[g])
  <2>1. SUFFICES ASSUME ~Beats(score[f], score[g]) PROVE FALSE
    OBVIOUS
  <2>2. score[f] \in [1 .. n -> Int] /\ score[g] \in [1 .. n -> Int] /\ score[f] # score[g]
    OBVIOUS
  <2>3. Beats(score[g], score[f])
    BY <2>1, <2>2, BeatsIsTotal
  <2>4. ASSUME NEW h \in Over(g) PROVE h \in Over(f)
    <3>1. h \in S /\ score[h] \in [1 .. n -> Int] /\ Beats(score[h], score[g])
      OBVIOUS
    <3> QED
      BY <3>1, <2>2, <2>3, BeatsIsTransitive
  <2>5. g \in Over(f) /\ g \notin Over(g)
    BY <2>2, <2>3, BeatsIsStrict
  <2>6. Over(g) \in T /\ Over(f) \subseteq S /\ Over(g) \subseteq S
    BY DEF T
  <2>7. <<Over(g), U>> \in R
    BY <2>4, <2>5, <2>6, <1>5, Zenon DEF R, StrictSubsetOrdering
  <2> QED
    BY <2>6, <2>7, <1>4
<1> QED
  BY <1>6

Falling(s) == \A i, j \in DOMAIN s : i < j => s[i] > s[j]
Descends(S) == \E s \in [1 .. Cardinality(S) -> S] : Falling(s)

(* A finite set of numbers can be put in descending order.                   *)
LEMMA DescendingExists ==
  ASSUME NEW S \in SUBSET Nat, IsFiniteSet(S)
  PROVE  Descends(S)
<1> DEFINE Sized(n) == {T \in SUBSET Nat : IsFiniteSet(T) /\ Cardinality(T) = n}
           Sorted == {n \in Nat : \A T \in Sized(n) : Descends(T)}
<1>1. 0 \in Sorted
  <2> SUFFICES ASSUME NEW T \in Sized(0) PROVE Descends(T)
    OBVIOUS
  <2>1. T = {} /\ Cardinality(T) = 0
    BY FS_EmptySet
  <2>2. << >> \in [1 .. 0 -> T] /\ Falling(<< >>)
    BY DEF Falling
  <2> QED
    BY <2>1, <2>2 DEF Descends
<1>2. ASSUME NEW n \in Nat, n \in Sorted PROVE n + 1 \in Sorted
  <2> SUFFICES ASSUME NEW T \in Sized(n + 1) PROVE Descends(T)
    OBVIOUS
  <2>1. T \in SUBSET Nat /\ IsFiniteSet(T) /\ Cardinality(T) = n + 1
    OBVIOUS
  <2>2. T # {}
    BY <2>1, FS_EmptySet
  <2>3. PICK m \in T : \A k \in T : m <= k
    BY <2>1, <2>2, Least
  <2>4. IsFiniteSet(T \ {m}) /\ Cardinality(T \ {m}) = n
    <3>1. /\ IsFiniteSet(T \ {m})
          /\ Cardinality(T \ {m}) = IF m \in T THEN Cardinality(T) - 1 ELSE Cardinality(T)
      BY <2>1, FS_RemoveElement
    <3> QED
      BY <3>1, <2>1
  <2>5. Descends(T \ {m})
    BY <1>2, <2>1, <2>4
  <2>6. PICK t \in [1 .. n -> T \ {m}] : Falling(t)
    BY <2>4, <2>5 DEF Descends
  <2> DEFINE s == [i \in 1 .. n + 1 |-> IF i = n + 1 THEN m ELSE t[i]]
  <2>7. s \in [1 .. n + 1 -> T]
    OBVIOUS
  <2>8. ASSUME NEW i \in 1 .. n + 1, NEW j \in 1 .. n + 1, i < j PROVE s[i] > s[j]
    <3>1. i \in 1 .. n /\ s[i] = t[i] /\ t[i] \in T \ {m} /\ t[i] > m
      <4>1. i \in 1 .. n /\ t[i] \in T /\ t[i] # m /\ t[i] \in Nat /\ m \in Nat
        <5>1. i \in 1 .. n
          BY <2>8
        <5>2. t[i] \in T \ {m}
          BY <5>1, <2>6
        <5> QED
          BY <5>1, <5>2, <2>1
      <4>2. m <= t[i] /\ i # n + 1
        BY <4>1, <2>3
      <4> QED
        BY <4>1, <4>2
    <3>2. CASE j = n + 1
      BY <3>1, <3>2
    <3>3. CASE j # n + 1
      <4>1. j \in 1 .. n /\ s[j] = t[j] /\ DOMAIN t = 1 .. n
        BY <3>3
      <4> QED
        BY <3>1, <4>1, <2>6, <2>8 DEF Falling
    <3> QED
      BY <3>2, <3>3
  <2> HIDE DEF s
  <2>9. Falling(s)
    BY <2>7, <2>8 DEF Falling
  <2> QED
    BY <2>1, <2>7, <2>9 DEF Descends
<1> HIDE DEF Sized, Sorted
<1>3. Nat \subseteq Sorted
  BY <1>1, <1>2, NatInductionOn
<1>4. Cardinality(S) \in Nat
  BY FS_CardinalityType
<1> QED
  BY <1>3, <1>4 DEF Sorted, Sized

LEMMA DescendingIs ==
  ASSUME NEW S \in SUBSET Nat, IsFiniteSet(S)
  PROVE  /\ Cardinality(S) \in Nat
         /\ Descending(S) \in [1 .. Cardinality(S) -> S]
         /\ \A i, j \in 1 .. Cardinality(S) : Descending(S)[i] = Descending(S)[j] => i = j
<1>1. \E s \in [1 .. Cardinality(S) -> S] : \A i, j \in DOMAIN s : i < j => s[i] > s[j]
  BY DescendingExists, Zenon DEF Descends, Falling
<1> DEFINE d == Descending(S)
<1>2. d \in [1 .. Cardinality(S) -> S] /\ \A i, j \in DOMAIN d : i < j => d[i] > d[j]
  BY <1>1, Zenon DEF Descending
<1> HIDE DEF d
<1>3. Cardinality(S) \in Nat
  BY FS_CardinalityType
<1>4. \A i, j \in 1 .. Cardinality(S) : d[i] = d[j] => i = j
  <2> SUFFICES ASSUME NEW i \in 1 .. Cardinality(S), NEW j \in 1 .. Cardinality(S),
                      d[i] = d[j], i # j
               PROVE  FALSE
    OBVIOUS
  <2>1. DOMAIN d = 1 .. Cardinality(S)
    BY <1>2
  <2>2. d[i] \in Nat /\ d[j] \in Nat
    BY <1>2
  <2>3. i < j \/ j < i
    OBVIOUS
  <2>4. d[i] > d[j] \/ d[j] > d[i]
    BY <2>1, <2>3, <1>2
  <2> QED
    BY <2>2, <2>4
<1> QED
  BY <1>2, <1>3, <1>4, Zenon DEF d

LEMMA SevenChecks ==
  ASSUME NEW a, NEW b, NEW c, NEW d, NEW e, NEW f, NEW g,
         a.fault # "none", b.fault # "none", c.fault # "none", d.fault # "none", e.fault # "none",
         f.fault # "none", g.fault # "none"
  PROVE  FirstFault(<<a, b, c, d, e, f, g>>) = "none" <=>
            /\ ~a.fails /\ ~b.fails /\ ~c.fails /\ ~d.fails
            /\ ~e.fails /\ ~f.fails /\ ~g.fails
<1> DEFINE checks == <<a, b, c, d, e, f, g>>
<1>1. /\ DOMAIN checks = 1 .. 7
      /\ checks[1] = a /\ checks[2] = b /\ checks[3] = c /\ checks[4] = d
      /\ checks[5] = e /\ checks[6] = f /\ checks[7] = g
  OBVIOUS
<1> HIDE DEF checks
<1>2. \A i \in 1 .. 7 : \/ checks[i] = a \/ checks[i] = b \/ checks[i] = c \/ checks[i] = d
                      \/ checks[i] = e \/ checks[i] = f \/ checks[i] = g
  BY <1>1
<1>3. \A i \in 1 .. 7 : checks[i].fault # "none"
  BY <1>2
<1>4. FirstFault(checks) = "none" <=> \A i \in 1 .. 7 : ~checks[i].fails
  BY <1>1, <1>3, NoFault
<1>5. {1, 2, 3, 4, 5, 6, 7} \subseteq 1 .. 7
  OBVIOUS
<1>6. (\A i \in 1 .. 7 : ~checks[i].fails) <=>
            /\ ~a.fails /\ ~b.fails /\ ~c.fails /\ ~d.fails
            /\ ~e.fails /\ ~f.fails /\ ~g.fails
  BY <1>1, <1>2, <1>5, Zenon
<1> QED
  BY <1>4, <1>6 DEF checks

LEMMA NineChecks ==
  ASSUME NEW a, NEW b, NEW c, NEW d, NEW e, NEW f, NEW g, NEW h, NEW k,
         a.fault # "none", b.fault # "none", c.fault # "none", d.fault # "none", e.fault # "none",
         f.fault # "none", g.fault # "none", h.fault # "none", k.fault # "none"
  PROVE  FirstFault(<<a, b, c, d, e, f, g, h, k>>) = "none" <=>
            /\ ~a.fails /\ ~b.fails /\ ~c.fails /\ ~d.fails /\ ~e.fails
            /\ ~f.fails /\ ~g.fails /\ ~h.fails /\ ~k.fails
<1> DEFINE checks == <<a, b, c, d, e, f, g, h, k>>
<1>1. /\ DOMAIN checks = 1 .. 9
      /\ checks[1] = a /\ checks[2] = b /\ checks[3] = c /\ checks[4] = d /\ checks[5] = e
      /\ checks[6] = f /\ checks[7] = g /\ checks[8] = h /\ checks[9] = k
  OBVIOUS
<1> HIDE DEF checks
<1>2. \A i \in 1 .. 9 : \/ checks[i] = a \/ checks[i] = b \/ checks[i] = c
                         \/ checks[i] = d \/ checks[i] = e
                      \/ checks[i] = f \/ checks[i] = g \/ checks[i] = h \/ checks[i] = k
  BY <1>1
<1>3. \A i \in 1 .. 9 : checks[i].fault # "none"
  BY <1>2
<1>4. FirstFault(checks) = "none" <=> \A i \in 1 .. 9 : ~checks[i].fails
  BY <1>1, <1>3, NoFault
<1>5. {1, 2, 3, 4, 5, 6, 7, 8, 9} \subseteq 1 .. 9
  OBVIOUS
<1>6. (\A i \in 1 .. 9 : ~checks[i].fails) <=>
            /\ ~a.fails /\ ~b.fails /\ ~c.fails /\ ~d.fails /\ ~e.fails
            /\ ~f.fails /\ ~g.fails /\ ~h.fails /\ ~k.fails
  BY <1>1, <1>2, <1>5, Zenon
<1> QED
  BY <1>4, <1>6 DEF checks

LEMMA TenChecks ==
  ASSUME NEW a, NEW b, NEW c, NEW d, NEW e, NEW f, NEW g, NEW h, NEW k, NEW l,
         a.fault # "none", b.fault # "none", c.fault # "none", d.fault # "none", e.fault # "none",
         f.fault # "none", g.fault # "none", h.fault # "none", k.fault # "none",
         l.fails => l.fault # "none"
  PROVE  FirstFault(<<a, b, c, d, e, f, g, h, k, l>>) = "none" <=>
            /\ ~a.fails /\ ~b.fails /\ ~c.fails /\ ~d.fails /\ ~e.fails
            /\ ~f.fails /\ ~g.fails /\ ~h.fails /\ ~k.fails /\ ~l.fails
<1> DEFINE checks == <<a, b, c, d, e, f, g, h, k, l>>
<1>1. /\ DOMAIN checks = 1 .. 10
      /\ checks[1] = a /\ checks[2] = b /\ checks[3] = c /\ checks[4] = d /\ checks[5] = e
      /\ checks[6] = f /\ checks[7] = g /\ checks[8] = h /\ checks[9] = k /\ checks[10] = l
  OBVIOUS
<1> HIDE DEF checks
<1>2. \A i \in 1 .. 10 : \/ checks[i] = a \/ checks[i] = b \/ checks[i] = c \/ checks[i] = d
                          \/ checks[i] = e \/ checks[i] = f \/ checks[i] = g \/ checks[i] = h
                          \/ checks[i] = k \/ checks[i] = l
  BY <1>1
<1>3. \A i \in 1 .. 10 : checks[i].fails => checks[i].fault # "none"
  BY <1>2
<1>4. FirstFault(checks) = "none" <=> \A i \in 1 .. 10 : ~checks[i].fails
  BY <1>1, <1>3, NoFault
<1>5. {1, 2, 3, 4, 5, 6, 7, 8, 9, 10} \subseteq 1 .. 10
  OBVIOUS
<1>6. (\A i \in 1 .. 10 : ~checks[i].fails) <=>
            /\ ~a.fails /\ ~b.fails /\ ~c.fails /\ ~d.fails /\ ~e.fails
            /\ ~f.fails /\ ~g.fails /\ ~h.fails /\ ~k.fails /\ ~l.fails
  BY <1>1, <1>2, <1>5, Zenon
<1> QED
  BY <1>4, <1>6 DEF checks

(* What is known of a format that has media and passes.                      *)
Bounded(number, low) == number = Absent \/ (number \in Int /\ number >= low)
Usable(raw) ==
    /\ raw.vcodec # "none" => raw.height \in Nat \ {0}
    /\ Bounded(raw.fps, 1) /\ Bounded(raw.size, 1) /\ Bounded(raw.approximate, 1)
    /\ Bounded(raw.tbr, 0) /\ Bounded(raw.vbr, 0) /\ Bounded(raw.abr, 0)

LEMMA RangeIsBounded ==
  ASSUME NEW number, NEW low \in Nat, NEW high \in Nat, InRange(number, low, high)
  PROVE  Bounded(number, low)
  BY DEF InRange, Bounded

LEMMA NumbersPass ==
  ASSUME NEW raw, NumberFault(raw) = "none"
  PROVE  Usable(raw)
<1> DEFINE a == Check(raw.vcodec # "none" /\ raw.height = Absent, "height")
           b == Check(~InRange(raw.width, 1, MaxDimension), "width")
           c == Check(~InRange(raw.height, 1, MaxDimension), "height")
           d == Check(~InRange(raw.fps, 1, MaxNumber), "fps")
           e == Check(~InRange(raw.size, 1, MaxNumber), "filesize")
           f == Check(~InRange(raw.approximate, 1, MaxNumber), "filesize_approx")
           g == Check(\E rate \in {raw.tbr, raw.vbr, raw.abr} : ~InRange(rate, 0, MaxNumber),
                      "bitrate")
<1>1. FirstFault(<<a, b, c, d, e, f, g>>) = "none"
  BY Zenon DEF NumberFault
<1>2. /\ a.fault # "none" /\ b.fault # "none" /\ c.fault # "none" /\ d.fault # "none"
      /\ e.fault # "none" /\ f.fault # "none" /\ g.fault # "none"
  BY DEF Check
<1>3. /\ a.fails <=> raw.vcodec # "none" /\ raw.height = Absent
      /\ c.fails <=> ~InRange(raw.height, 1, MaxDimension)
      /\ d.fails <=> ~InRange(raw.fps, 1, MaxNumber)
      /\ e.fails <=> ~InRange(raw.size, 1, MaxNumber)
      /\ f.fails <=> ~InRange(raw.approximate, 1, MaxNumber)
      /\ g.fails <=> \E rate \in {raw.tbr, raw.vbr, raw.abr} : ~InRange(rate, 0, MaxNumber)
  BY Zenon DEF Check
<1> HIDE DEF a, b, c, d, e, f, g
<1>4. ~a.fails /\ ~c.fails /\ ~d.fails /\ ~e.fails /\ ~f.fails /\ ~g.fails
  BY <1>1, <1>2, SevenChecks
<1>5. /\ raw.vcodec # "none" => raw.height # Absent
      /\ InRange(raw.height, 1, MaxDimension)
      /\ InRange(raw.fps, 1, MaxNumber) /\ InRange(raw.size, 1, MaxNumber)
      /\ InRange(raw.approximate, 1, MaxNumber) /\ InRange(raw.tbr, 0, MaxNumber)
      /\ InRange(raw.vbr, 0, MaxNumber) /\ InRange(raw.abr, 0, MaxNumber)
  BY <1>3, <1>4, Zenon
<1>6. /\ Bounded(raw.height, 1) /\ Bounded(raw.fps, 1) /\ Bounded(raw.size, 1)
      /\ Bounded(raw.approximate, 1) /\ Bounded(raw.tbr, 0) /\ Bounded(raw.vbr, 0)
      /\ Bounded(raw.abr, 0)
  BY <1>5, RangeIsBounded, FormatsAssumption
<1>7. raw.vcodec # "none" => raw.height \in Nat \ {0}
  BY <1>5, <1>6 DEF Bounded
<1> QED
  BY <1>6, <1>7 DEF Usable

LEMMA TextsPass ==
  ASSUME NEW raw, TextFault(raw) = "none"
  PROVE  ~RequiredFails(raw.id)
<1> DEFINE a == Check(RequiredFails(raw.id), "format_id")
           b == Check(RequiredFails(raw.ext), "ext")
           c == Check(RequiredFails(raw.vcodec), "vcodec")
           d == Check(RequiredFails(raw.acodec), "acodec")
           checks == <<a, b, c, d>>
<1>1. FirstFault(checks) = "none"
  BY Zenon DEF TextFault
<1>2. a.fault # "none" /\ (a.fails <=> RequiredFails(raw.id))
  BY Zenon DEF Check
<1> HIDE DEF a, b, c, d
<1>3. DOMAIN checks = 1 .. 4 /\ checks[1] = a
  OBVIOUS
<1> HIDE DEF checks
<1>4. ~checks[1].fails
  <2>1. checks[1].fault # "none" /\ 4 \in Nat \ {0}
    BY <1>2, <1>3
  <2> QED
    BY <1>1, <1>3, <2>1, FirstCheckPassed
<1> QED
  BY <1>2, <1>3, <1>4

(* The list of the formats of an answer, with identities the order knows.    *)
Identified(raws) ==
    /\ DOMAIN raws = 1 .. Len(raws) /\ Len(raws) \in Nat
    /\ \A i \in DOMAIN raws :
          RequiredFails(raws[i].id) \/ \E k \in DOMAIN FormatIds : FormatIds[k] = raws[i].id

(* What is known of the formats of an answer that passes.                    *)
FormatsPassed(raws) ==
    \A i \in DOMAIN raws : HasMedia(raws[i]) =>
        /\ Usable(raws[i])
        /\ \E k \in DOMAIN FormatIds : FormatIds[k] = raws[i].id
        /\ \A j \in DOMAIN raws : HasMedia(raws[j]) /\ raws[j].id = raws[i].id => j = i

LEMMA NoFaultAnywhere ==
  ASSUME NEW raws, Identified(raws), FormatsFault(raws) = "none"
  PROVE  /\ \A i \in DOMAIN raws : FaultAt(raws, i) = "none"
         /\ Offers(Normalized(raws)) # <<>>
<1> DEFINE places == [i \in DOMAIN raws |-> i]
           fault == FirstFaultOf(places, LAMBDA i : FaultAt(raws, i))
<1>1. fault = "none" /\ Offers(Normalized(raws)) # <<>>
  BY Zenon DEF FormatsFault
<1> DEFINE failed == {i \in DOMAIN raws : FaultAt(raws, i) # "none"}
<1>2. fault = IF failed = {} THEN "none" ELSE FaultAt(raws, Min(failed))
  <2>1. DOMAIN places = DOMAIN raws /\ \A i \in DOMAIN raws : places[i] = i
    OBVIOUS
  <2> DEFINE found == {i \in DOMAIN places : FaultAt(raws, places[i]) # "none"}
  <2>2. found = failed
    BY <2>1, Zenon
  <2>3. fault = IF found = {} THEN "none" ELSE FaultAt(raws, places[Min(found)])
    BY Zenon DEF FirstFaultOf
  <2>4. failed \in SUBSET Nat
    BY DEF Identified
  <2>5. failed # {} => Min(failed) \in failed
    BY <2>4, MinIsFirst
  <2> HIDE DEF fault, places, found, failed
  <2>6. CASE failed = {}
    BY <2>2, <2>3, <2>6, Zenon
  <2>7. CASE failed # {}
    <3>1. Min(failed) \in DOMAIN raws
      BY <2>5, <2>7 DEF failed
    <3> QED
      BY <2>1, <2>2, <2>3, <2>7, <3>1, Zenon
  <2> QED
    BY <2>6, <2>7
<1>3. failed = {}
  <2>1. failed \in SUBSET Nat
    BY DEF Identified
  <2>2. failed # {} => Min(failed) \in failed
    BY <2>1, MinIsFirst
  <2>3. failed # {} => FaultAt(raws, Min(failed)) # "none"
    BY <2>2, Zenon
  <2> HIDE DEF failed, fault
  <2> QED
    BY <1>1, <1>2, <2>3, Zenon
<1> QED
  BY <1>1, <1>3, Zenon

LEMMA EveryFormatPassed ==
  ASSUME NEW raws, Identified(raws), FormatsFault(raws) = "none"
  PROVE  FormatsPassed(raws)
<1>1. \A i \in DOMAIN raws : FaultAt(raws, i) = "none"
  BY NoFaultAnywhere
<1>2. ASSUME NEW i \in DOMAIN raws
      PROVE  /\ TextFault(raws[i]) = "none"
             /\ HasMedia(raws[i]) =>
                   /\ NumberFault(raws[i]) = "none"
                   /\ \A j \in 1 .. i - 1 : HasMedia(raws[j]) => raws[j].id # raws[i].id
  <2>1. FaultAt(raws, i) = "none"
    BY <1>1
  <2>2. FormatFault(raws[i]) = "none"
    BY <2>1, Zenon DEF FaultAt
  <2>3. ~(HasMedia(raws[i]) /\ \E j \in 1 .. i - 1 : HasMedia(raws[j]) /\ raws[j].id = raws[i].id)
    BY <2>1, <2>2, Zenon DEF FaultAt
  <2>4. TextFault(raws[i]) = "none" /\ (HasMedia(raws[i]) => NumberFault(raws[i]) = "none")
    BY <2>2, Zenon DEF FormatFault
  <2> QED
    BY <2>3, <2>4, Zenon
<1>3. SUFFICES ASSUME NEW i \in DOMAIN raws, HasMedia(raws[i])
               PROVE  /\ Usable(raws[i])
                      /\ \E k \in DOMAIN FormatIds : FormatIds[k] = raws[i].id
                      /\ \A j \in DOMAIN raws :
                            HasMedia(raws[j]) /\ raws[j].id = raws[i].id => j = i
  BY Zenon DEF FormatsPassed
<1>4. Usable(raws[i])
  BY <1>2, <1>3, NumbersPass
<1>5. \E k \in DOMAIN FormatIds : FormatIds[k] = raws[i].id
  <2>1. ~RequiredFails(raws[i].id)
    BY <1>2, TextsPass
  <2> QED
    BY <2>1, Zenon DEF Identified
<1>6. ASSUME NEW j \in DOMAIN raws, HasMedia(raws[j]), raws[j].id = raws[i].id, j # i
      PROVE  FALSE
  <2>1. i \in 1 .. Len(raws) /\ j \in 1 .. Len(raws) /\ Len(raws) \in Nat
    BY Zenon DEF Identified
  <2>2. j \in 1 .. i - 1 \/ i \in 1 .. j - 1
    BY <2>1, <1>6
  <2> QED
    BY <2>2, <1>2, <1>3, <1>6, Zenon
<1> QED
  BY <1>4, <1>5, <1>6

-----------------------------------------------------------------------------
(* The formats of an answer that passes.                                     *)
Format(f) ==
    /\ f.videoRate \in Int /\ f.total \in Int /\ f.fps \in Int /\ f.size \in Int
    /\ f.video # "none" => f.height \in Nat \ {0}
    /\ \E k \in DOMAIN FormatIds : FormatIds[k] = f.id

LEMMA OrElseIs ==
  ASSUME NEW number, NEW low \in Nat, Bounded(number, low), NEW other \in Int
  PROVE  OrElse(number, other) \in Int
  BY DEF OrElse, Bounded, Absent

LEMMA FamilyIs ==
  ASSUME NEW codec
  PROVE  VideoFamily(codec) # "none" => codec # "none"
  BY DEF VideoFamily

LEMMA NormalizedIs ==
  ASSUME NEW raws, Identified(raws), FormatsFault(raws) = "none"
  PROVE  /\ IsFiniteSet(Normalized(raws))
         /\ \A f \in Normalized(raws) : Format(f)
         /\ \A f, g \in Normalized(raws) : f.id = g.id => f = g
<1> DEFINE places == {j \in DOMAIN raws : HasMedia(raws[j])}
           normal == [i \in places |-> NormalFormat(raws[i])]
<1>1. FormatsPassed(raws)
  BY EveryFormatPassed
<1>2. Normalized(raws) = {NormalFormat(raws[i]) : i \in places}
  BY Zenon DEF Normalized
<1>3. IsFiniteSet(places)
  <2>1. IsFiniteSet(1 .. Len(raws))
    BY FS_Interval DEF Identified
  <2>2. places \subseteq 1 .. Len(raws)
    BY Zenon DEF Identified
  <2> QED
    BY <2>1, <2>2, FS_Subset
<1>4. IsFiniteSet(Normalized(raws))
  <2>1. normal \in Surjection(places, Normalized(raws))
    BY <1>2, Zenon DEF Surjection
  <2> QED
    BY <1>3, <2>1, FS_Surjection
<1>5. ASSUME NEW i \in places PROVE Format(NormalFormat(raws[i]))
  <2> DEFINE raw == raws[i]
             f   == NormalFormat(raw)
  <2>1. Usable(raw) /\ \E k \in DOMAIN FormatIds : FormatIds[k] = raw.id
    BY <1>1, Zenon DEF FormatsPassed
  <2>2. /\ f.id = raw.id /\ f.height = raw.height /\ f.video = VideoFamily(raw.vcodec)
        /\ f.fps = raw.fps /\ f.size = OrElse(raw.size, raw.approximate)
        /\ f.total = OrElse(raw.tbr, 0) /\ f.videoRate = OrElse(raw.vbr, 0)
    BY DEF NormalFormat
  <2>3. Bounded(raw.fps, 1) /\ Bounded(raw.size, 1) /\ Bounded(raw.approximate, 1)
        /\ Bounded(raw.tbr, 0) /\ Bounded(raw.vbr, 0)
    BY <2>1 DEF Usable
  <2> HIDE DEF f, raw
  <2>4. raw.fps \in Int /\ raw.approximate \in Int
    BY <2>3 DEF Bounded, Absent
  <2>5. f.fps \in Int /\ f.size \in Int /\ f.total \in Int /\ f.videoRate \in Int
    BY <2>2, <2>3, <2>4, OrElseIs
  <2>6. f.video # "none" => f.height \in Nat \ {0}
    BY <2>1, <2>2, FamilyIs DEF Usable
  <2>7. Format(f)
    BY <2>1, <2>2, <2>5, <2>6 DEF Format
  <2> QED
    BY <2>7 DEF f, raw
<1>6. \A f \in Normalized(raws) : Format(f)
  BY <1>2, <1>5, Zenon
<1>7. ASSUME NEW f \in Normalized(raws), NEW g \in Normalized(raws), f.id = g.id PROVE f = g
  <2>1. PICK i \in places : f = NormalFormat(raws[i])
    BY <1>2, Zenon
  <2>2. PICK j \in places : g = NormalFormat(raws[j])
    BY <1>2, Zenon
  <2>3. f.id = raws[i].id /\ g.id = raws[j].id
    BY <2>1, <2>2 DEF NormalFormat
  <2>4. i = j
    BY <2>3, <1>7, <1>1, Zenon DEF FormatsPassed
  <2> QED
    BY <2>1, <2>2, <2>4
<1> QED
  BY <1>4, <1>6, <1>7

(* The best video format of a height is one of that height.                  *)
BestVideo(formats, h) ==
    SelectBest({f \in formats : HasVideo(f) /\ f.height = h}, VideoScore)

LEMMA PlaceIs ==
  ASSUME NEW id, \E k \in DOMAIN FormatIds : FormatIds[k] = id
  PROVE  Place(id) \in DOMAIN FormatIds /\ FormatIds[Place(id)] = id
  BY Zenon DEF Place

LEMMA ScoreIs ==
  ASSUME NEW f, Format(f)
  PROVE  VideoScore(f) \in [1 .. 7 -> Int] /\ VideoScore(f)[7] = Place(f.id)
<1>1. Place(f.id) \in Int
  BY PlaceIs, FormatsAssumption DEF Format
<1>2. /\ Point(f.video = "H264") \in Int /\ Point(IsMp4Family(f)) \in Int
      /\ Point(f.audio = "Aac") \in Int
  BY DEF Point
<1>3. Larger(f.videoRate, f.total) \in Int
  BY DEF Larger, Format
<1>4. OrElse(f.fps, 0) \in Int /\ OrElse(f.size, 0) \in Int
  BY DEF OrElse, Format
<1> DEFINE a == Point(f.video = "H264")
           b == Point(IsMp4Family(f))
           c == Point(f.audio = "Aac")
           d == Larger(f.videoRate, f.total)
           e == OrElse(f.fps, 0)
           g == OrElse(f.size, 0)
           h == Place(f.id)
<1>5. VideoScore(f) = <<a, b, c, d, e, g, h>>
  BY Zenon DEF VideoScore
<1>6. a \in Int /\ b \in Int /\ c \in Int /\ d \in Int /\ e \in Int /\ g \in Int /\ h \in Int
  BY <1>1, <1>2, <1>3, <1>4
<1>7. h = Place(f.id)
  OBVIOUS
<1> HIDE DEF a, b, c, d, e, g, h
<1> QED
  BY <1>5, <1>6, <1>7

LEMMA BestVideoIs ==
  ASSUME NEW formats, IsFiniteSet(formats), \A f \in formats : Format(f),
         \A f, g \in formats : f.id = g.id => f = g,
         NEW h \in {f.height : f \in {g \in formats : HasVideo(g)}}
  PROVE  /\ BestVideo(formats, h) \in formats
         /\ HasVideo(BestVideo(formats, h)) /\ BestVideo(formats, h).height = h
<1> DEFINE S == {f \in formats : HasVideo(f) /\ f.height = h}
           score == [f \in S |-> VideoScore(f)]
<1>1. S # {} /\ S \subseteq formats
  OBVIOUS
<1>2. IsFiniteSet(S)
  BY <1>1, FS_Subset
<1>3. \A f \in S : VideoScore(f) \in [1 .. 7 -> Int] /\ VideoScore(f)[7] = Place(f.id)
  BY <1>1, ScoreIs
<1>4. score \in [S -> [1 .. 7 -> Int]]
  BY <1>3, Zenon
<1>5. ASSUME NEW f \in S, NEW g \in S, score[f] = score[g] PROVE f = g
  <2>1. Place(f.id) = Place(g.id)
    BY <1>3, <1>5, Zenon
  <2>2. FormatIds[Place(f.id)] = f.id /\ FormatIds[Place(g.id)] = g.id
    BY <1>1, PlaceIs DEF Format
  <2> QED
    BY <2>1, <2>2, <1>1
<1> HIDE DEF score
<1>6. \E f \in S : \A g \in S \ {f} : Beats(score[f], score[g])
  BY <1>1, <1>2, <1>4, <1>5, BestExists
<1>7. \E f \in S : \A g \in S \ {f} : Beats(VideoScore(f), VideoScore(g))
  <2>1. \A f \in S : score[f] = VideoScore(f)
    BY DEF score
  <2> HIDE DEF S
  <2> QED
    BY <1>6, <2>1, Zenon
<1>8. BestVideo(formats, h) =
        CHOOSE f \in S : \A g \in S \ {f} : Beats(VideoScore(f), VideoScore(g))
  BY Zenon DEF BestVideo, SelectBest
<1>9. BestVideo(formats, h) \in S
  <2> HIDE DEF S
  <2> QED
    BY <1>7, <1>8, Zenon
<1> QED
  BY <1>9, Zenon

-----------------------------------------------------------------------------
(* The list of the offers, and the request for one of them.                  *)
LEMMA JoinedAt ==
  ASSUME NEW m \in Nat, NEW n \in Nat, NEW X, NEW a \in [1 .. m -> X], NEW b \in [1 .. n -> X]
  PROVE  /\ DOMAIN (a \o b) = 1 .. m + n
         /\ \A i \in 1 .. m : (a \o b)[i] = a[i]
         /\ \A i \in 1 .. n : (a \o b)[m + i] = b[i]
<1>1. a \in Seq(X) /\ b \in Seq(X) /\ Len(a) = m /\ Len(b) = n
  OBVIOUS
<1> QED
  BY <1>1

HeightsOf(formats) == {f.height : f \in {g \in formats : HasVideo(g)}}
BestSound(formats) == SelectBest({f \in formats : HasAudio(f)}, Mp3Score)
VideoOffer(formats, h) ==
    Mp4Offer(h, BestVideo(formats, h), AudioFor(formats, BestVideo(formats, h)))

LEMMA OffersAre ==
  ASSUME NEW formats, Offers(formats) # <<>>, NEW n \in Nat, NEW X,
         Descending(HeightsOf(formats)) \in [1 .. n -> X]
  PROVE  /\ DOMAIN Offers(formats) = 1 .. 4 + n
         /\ \A i \in 1 .. 4 :
               Offers(formats)[i] = Mp3Offer(Mp3Bitrates[i], BestSound(formats))
         /\ \A j \in 1 .. n :
               Offers(formats)[4 + j] = VideoOffer(formats, Descending(HeightsOf(formats))[j])
<1> DEFINE d == Descending(HeightsOf(formats))
           sounds == [i \in 1 .. 4 |-> Mp3Offer(Mp3Bitrates[i], BestSound(formats))]
           videos == [j \in 1 .. n |-> VideoOffer(formats, d[j])]
           Y == {sounds[i] : i \in 1 .. 4} \union {videos[j] : j \in 1 .. n}
<1>1. DOMAIN Mp3Bitrates = 1 .. 4 /\ DOMAIN d = 1 .. n
  BY DEF Mp3Bitrates
<1>2. Offers(formats) = [i \in DOMAIN Mp3Bitrates |-> Mp3Offer(Mp3Bitrates[i], BestSound(formats))]
                        \o [j \in DOMAIN d |-> VideoOffer(formats, d[j])]
  BY Zenon DEF Offers, BestSound, VideoOffer, BestVideo, HeightsOf
<1>3. Offers(formats) = sounds \o videos
  <2> HIDE DEF d
  <2> QED
    BY <1>1, <1>2, Zenon
<1>4. sounds \in [1 .. 4 -> Y] /\ videos \in [1 .. n -> Y]
  <2>1. DOMAIN sounds = 1 .. 4 /\ DOMAIN videos = 1 .. n
    OBVIOUS
  <2>2. sounds = [i \in 1 .. 4 |-> sounds[i]] /\ videos = [j \in 1 .. n |-> videos[j]]
    OBVIOUS
  <2> HIDE DEF sounds, videos
  <2> QED
    BY <2>1, <2>2
<1>5. /\ \A i \in 1 .. 4 : sounds[i] = Mp3Offer(Mp3Bitrates[i], BestSound(formats))
      /\ \A j \in 1 .. n : videos[j] = VideoOffer(formats, d[j])
  OBVIOUS
<1> HIDE DEF sounds, videos, Y
<1>6. /\ DOMAIN (sounds \o videos) = 1 .. 4 + n
      /\ \A i \in 1 .. 4 : (sounds \o videos)[i] = sounds[i]
      /\ \A j \in 1 .. n : (sounds \o videos)[4 + j] = videos[j]
  <2> DEFINE m == 4
  <2>1. m \in Nat /\ sounds \in [1 .. m -> Y] /\ videos \in [1 .. n -> Y]
    BY <1>4
  <2> HIDE DEF m
  <2>2. /\ DOMAIN (sounds \o videos) = 1 .. m + n
        /\ \A i \in 1 .. m : (sounds \o videos)[i] = sounds[i]
        /\ \A j \in 1 .. n : (sounds \o videos)[m + j] = videos[j]
    BY <2>1, JoinedAt
  <2> QED
    BY <2>2, Zenon DEF m
<1> QED
  BY <1>3, <1>5, <1>6, Zenon

(* An offer: of which kind, for which formats.                               *)
IsSound(offer) == \E bitrate, source : offer = Mp3Offer(bitrate, source)
IsVideo(offer) ==
    \E h, video, audio :
        h \in Nat \ {0} /\ offer = Mp4Offer(h, video, audio) /\ video.height = h
Distinct(offers) ==
    \A i, k \in DOMAIN offers :
        offers[i].kind = offers[k].kind /\ offers[i].quality = offers[k].quality => i = k

LEMMA OffersOfNormalized ==
  ASSUME NEW formats, IsFiniteSet(formats), \A f \in formats : Format(f),
         \A f, g \in formats : f.id = g.id => f = g, Offers(formats) # <<>>
  PROVE  /\ DOMAIN Offers(formats) \in SUBSET Nat
         /\ \A i \in DOMAIN Offers(formats) :
               IsSound(Offers(formats)[i]) \/ IsVideo(Offers(formats)[i])
         /\ Distinct(Offers(formats))
<1> DEFINE H == HeightsOf(formats)
           n == Cardinality(H)
           d == Descending(H)
           offers == Offers(formats)
<1>1. H \in SUBSET (Nat \ {0})
  BY DEF HeightsOf, HasVideo, Format
<1>2. IsFiniteSet(H)
  <2> DEFINE V == {g \in formats : HasVideo(g)}
             height == [f \in V |-> f.height]
  <2>1. IsFiniteSet(V)
    BY FS_Subset
  <2>2. height \in Surjection(V, H)
    BY Zenon DEF Surjection, HeightsOf
  <2> QED
    BY <2>1, <2>2, FS_Surjection
<1>3. /\ n \in Nat /\ d \in [1 .. n -> H]
      /\ \A i, j \in 1 .. n : d[i] = d[j] => i = j
  BY <1>1, <1>2, DescendingIs
<1>4. /\ DOMAIN offers = 1 .. 4 + n
      /\ \A i \in 1 .. 4 : offers[i] = Mp3Offer(Mp3Bitrates[i], BestSound(formats))
      /\ \A j \in 1 .. n : offers[4 + j] = VideoOffer(formats, d[j])
  BY <1>3, OffersAre
<1>5. ASSUME NEW j \in 1 .. n
      PROVE  IsVideo(offers[4 + j]) /\ offers[4 + j].kind = "mp4" /\ offers[4 + j].quality = d[j]
  <2>1. d[j] \in H
    BY <1>3
  <2>2. BestVideo(formats, d[j]).height = d[j]
    <3>1. d[j] \in {f.height : f \in {g \in formats : HasVideo(g)}}
      BY <2>1, Zenon DEF HeightsOf
    <3> QED
      BY <3>1, BestVideoIs
  <2>3. offers[4 + j] =
          Mp4Offer(d[j], BestVideo(formats, d[j]), AudioFor(formats, BestVideo(formats, d[j])))
    BY <1>4, Zenon DEF VideoOffer
  <2>4. d[j] \in Nat \ {0}
    BY <2>1, <1>1
  <2> HIDE DEF offers, d
  <2>5. IsVideo(offers[4 + j])
    BY <2>2, <2>3, <2>4, Zenon DEF IsVideo
  <2>6. offers[4 + j].kind = "mp4" /\ offers[4 + j].quality = d[j]
    BY <2>3 DEF Mp4Offer
  <2> QED
    BY <2>5, <2>6
<1>6. ASSUME NEW i \in 1 .. 4
      PROVE  IsSound(offers[i]) /\ offers[i].kind = "mp3" /\ offers[i].quality = Mp3Bitrates[i]
  <2>1. offers[i] = Mp3Offer(Mp3Bitrates[i], BestSound(formats))
    BY <1>4
  <2> HIDE DEF offers
  <2>2. IsSound(offers[i])
    BY <2>1, Zenon DEF IsSound
  <2>3. offers[i].kind = "mp3" /\ offers[i].quality = Mp3Bitrates[i]
    BY <2>1 DEF Mp3Offer
  <2> QED
    BY <2>2, <2>3
<1> HIDE DEF offers, d, n, H
<1>7. \A i \in DOMAIN offers : i \in 1 .. 4 \/ \E j \in 1 .. n : i = 4 + j
  <2> SUFFICES ASSUME NEW i \in 1 .. 4 + n, i \notin 1 .. 4 PROVE \E j \in 1 .. n : i = 4 + j
    BY <1>4
  <2>1. i - 4 \in 1 .. n /\ i = 4 + (i - 4)
    BY <1>3
  <2> QED
    BY <2>1
<1>8. \A i \in DOMAIN offers : IsSound(offers[i]) \/ IsVideo(offers[i])
  BY <1>5, <1>6, <1>7
<1>9. Distinct(offers)
  <2> SUFFICES ASSUME NEW i \in DOMAIN offers, NEW k \in DOMAIN offers,
                      offers[i].kind = offers[k].kind, offers[i].quality = offers[k].quality
               PROVE  i = k
    BY Zenon DEF Distinct
  <2>1. CASE i \in 1 .. 4 /\ k \in 1 .. 4
    <3>1. Mp3Bitrates[i] = Mp3Bitrates[k]
      BY <2>1, <1>6
    <3> QED
      BY <2>1, <3>1 DEF Mp3Bitrates
  <2>2. CASE i \in 1 .. 4 /\ \E j \in 1 .. n : k = 4 + j
    BY <2>2, <1>5, <1>6
  <2>3. CASE k \in 1 .. 4 /\ \E j \in 1 .. n : i = 4 + j
    BY <2>3, <1>5, <1>6
  <2>4. ASSUME NEW j \in 1 .. n, NEW l \in 1 .. n, i = 4 + j, k = 4 + l PROVE i = k
    <3>1. d[j] = d[l]
      BY <2>4, <1>5
    <3> QED
      BY <3>1, <2>4, <1>3
  <2> QED
    BY <1>7, <2>1, <2>2, <2>3, <2>4
<1>10. DOMAIN offers \in SUBSET Nat
  BY <1>3, <1>4
<1> QED
  BY <1>8, <1>9, <1>10 DEF offers

LEMMA OfferResolves ==
  ASSUME NEW offers, DOMAIN offers \in SUBSET Nat, Distinct(offers), NEW i \in DOMAIN offers
  PROVE  ResolveFormat(offers, [kind |-> offers[i].kind, quality |-> offers[i].quality]) = offers[i]
<1> DEFINE Fit == {k \in DOMAIN offers : offers[k].kind = offers[i].kind
                                         /\ offers[k].quality = offers[i].quality}
           request == [kind |-> offers[i].kind, quality |-> offers[i].quality]
<1>1. Fit \in SUBSET Nat /\ Fit # {}
  OBVIOUS
<1>2. Min(Fit) \in Fit
  BY <1>1, MinIsFirst
<1>3. Min(Fit) = i
  BY <1>2, Zenon DEF Distinct
<1>4. request.kind = offers[i].kind /\ request.quality = offers[i].quality
  OBVIOUS
<1>5. {k \in DOMAIN offers : offers[k].kind = request.kind
                             /\ offers[k].quality = request.quality} = Fit
  BY <1>4, Zenon
<1> HIDE DEF request, Fit
<1>6. ResolveFormat(offers, request) = offers[Min(Fit)]
  <2>1. \E k \in DOMAIN offers : offers[k].kind = request.kind
                                 /\ offers[k].quality = request.quality
    BY <1>4, Zenon
  <2> QED
    BY <2>1, <1>5, Zenon DEF ResolveFormat, FirstWith
<1> QED
  BY <1>3, <1>6 DEF request

-----------------------------------------------------------------------------
(* The stages on the way.                                                    *)
LEMMA StagesFollow ==
  ASSUME NEW a, NEW b, NEW c, a \in NextStages("none"), b \in NextStages(a), c \in NextStages(b)
  PROVE  NothingSuppressed(<<a, b, c>>)
<1> DEFINE s == <<a, b, c>>
<1>1. DOMAIN s = 1 .. 3 /\ s[1] = a /\ s[2] = b /\ s[3] = c
  OBVIOUS
<1> HIDE DEF s
<1>2. ASSUME NEW i \in 1 .. 3
      PROVE  s[i] \in NextStages(IF i = 1 THEN "none" ELSE s[i - 1])
  <2>1. i = 1 \/ i = 2 \/ i = 3
    OBVIOUS
  <2>2. CASE i = 1
    BY <2>2, <1>1
  <2>3. CASE i = 2
    BY <2>3, <1>1
  <2>4. CASE i = 3
    BY <2>4, <1>1
  <2> QED
    BY <2>1, <2>2, <2>3, <2>4
<1>3. NothingSuppressed(s)
  BY <1>1, <1>2 DEF NothingSuppressed
<1> QED
  BY <1>3 DEF s

LEMMA MoreStagesFollow ==
  ASSUME NEW a, NEW b, NEW c, NEW d, a \in NextStages("none"), b \in NextStages(a),
         c \in NextStages(b), d \in NextStages(c)
  PROVE  NothingSuppressed(<<a, b, c, d>>)
<1> DEFINE s == <<a, b, c, d>>
<1>1. DOMAIN s = 1 .. 4 /\ s[1] = a /\ s[2] = b /\ s[3] = c /\ s[4] = d
  OBVIOUS
<1> HIDE DEF s
<1>2. ASSUME NEW i \in 1 .. 4
      PROVE  s[i] \in NextStages(IF i = 1 THEN "none" ELSE s[i - 1])
  <2>1. i = 1 \/ i = 2 \/ i = 3 \/ i = 4
    OBVIOUS
  <2>2. CASE i = 1
    BY <2>2, <1>1
  <2>3. CASE i = 2
    BY <2>3, <1>1
  <2>4. CASE i = 3
    BY <2>4, <1>1
  <2>5. CASE i = 4
    BY <2>5, <1>1
  <2> QED
    BY <2>1, <2>2, <2>3, <2>4, <2>5
<1>3. NothingSuppressed(s)
  BY <1>1, <1>2 DEF NothingSuppressed
<1> QED
  BY <1>3 DEF s

LEMMA StagesJoined ==
  ASSUME NEW a, NEW b, NEW c, NEW d
  PROVE  /\ <<a, b>> \o <<>> \o <<d>> = <<a, b, d>>
         /\ <<a, b>> \o <<c>> \o <<d>> = <<a, b, c, d>>
<1> DEFINE S == {a, b, c, d}
<1>1. a \in S /\ b \in S /\ c \in S /\ d \in S
  OBVIOUS
<1> HIDE DEF S
<1>2. <<a, b>> \in Seq(S) /\ <<a, b, c>> \in Seq(S)
  BY <1>1
<1>3. /\ <<a, b>> \o <<>> = <<a, b>>
      /\ <<a, b>> \o <<c>> = Append(<<a, b>>, c)
      /\ <<a, b>> \o <<d>> = Append(<<a, b>>, d)
      /\ <<a, b, c>> \o <<d>> = Append(<<a, b, c>>, d)
  BY <1>1, <1>2, ConcatEmptySeq, AppendIsConcat
<1>4. ASSUME NEW x \in S
      PROVE  Append(<<a, b>>, x) = <<a, b, x>> /\ Append(<<a, b, c>>, x) = <<a, b, c, x>>
  <2>1. /\ <<a, b, x>> \in Seq(S) /\ Append(<<a, b>>, x) \in Seq(S)
        /\ <<a, b, c, x>> \in Seq(S) /\ Append(<<a, b, c>>, x) \in Seq(S)
    BY <1>1, <1>2
  <2>2. /\ Len(<<a, b, x>>) = 3 /\ Len(Append(<<a, b>>, x)) = 3
        /\ Len(<<a, b, c, x>>) = 4 /\ Len(Append(<<a, b, c>>, x)) = 4
    BY <1>1, <1>2
  <2>3. \A i \in 1 .. 3 : Append(<<a, b>>, x)[i] = <<a, b, x>>[i]
    BY <1>1, <1>2, AppendProperties
  <2>4. \A i \in 1 .. 4 : Append(<<a, b, c>>, x)[i] = <<a, b, c, x>>[i]
    BY <1>1, <1>2, AppendProperties
  <2>5. Append(<<a, b>>, x) = <<a, b, x>>
    BY <2>1, <2>2, <2>3, SeqEqual
  <2>6. Append(<<a, b, c>>, x) = <<a, b, c, x>>
    BY <2>1, <2>2, <2>4, SeqEqual
  <2> QED
    BY <2>5, <2>6
<1> QED
  BY <1>1, <1>3, <1>4

LEMMA StagesAllowed ==
  ASSUME NEW offer
  PROVE  NothingSuppressed(ReportedStages(offer))
<1>1. /\ "analyzing" \in NextStages("none") /\ "downloading" \in NextStages("analyzing")
      /\ "finalizing" \in NextStages("downloading") /\ "merging" \in NextStages("downloading")
      /\ "converting" \in NextStages("downloading") /\ "finalizing" \in NextStages("merging")
      /\ "finalizing" \in NextStages("converting")
  BY DEF NextStages
<1>2. /\ NothingSuppressed(<<"analyzing", "downloading", "finalizing">>)
      /\ NothingSuppressed(<<"analyzing", "downloading", "merging", "finalizing">>)
      /\ NothingSuppressed(<<"analyzing", "downloading", "converting", "finalizing">>)
  BY <1>1, StagesFollow, MoreStagesFollow, Zenon
<1>3. \/ WorkStages(offer) = <<>> \/ WorkStages(offer) = <<"merging">>
      \/ WorkStages(offer) = <<"converting">>
  BY DEF WorkStages, IsLinked
<1>4. /\ <<"analyzing", "downloading">> \o <<>> \o <<"finalizing">>
           = <<"analyzing", "downloading", "finalizing">>
      /\ <<"analyzing", "downloading">> \o <<"merging">> \o <<"finalizing">>
           = <<"analyzing", "downloading", "merging", "finalizing">>
      /\ <<"analyzing", "downloading">> \o <<"converting">> \o <<"finalizing">>
           = <<"analyzing", "downloading", "converting", "finalizing">>
  <2>1. <<"analyzing", "downloading">> \o <<>> \o <<"finalizing">>
           = <<"analyzing", "downloading", "finalizing">>
    BY StagesJoined, Zenon
  <2>2. <<"analyzing", "downloading">> \o <<"merging">> \o <<"finalizing">>
           = <<"analyzing", "downloading", "merging", "finalizing">>
    BY StagesJoined
  <2>3. <<"analyzing", "downloading">> \o <<"converting">> \o <<"finalizing">>
           = <<"analyzing", "downloading", "converting", "finalizing">>
    BY StagesJoined
  <2> QED
    BY <2>1, <2>2, <2>3, Zenon
<1> QED
  BY <1>2, <1>3, <1>4, Zenon DEF ReportedStages

-----------------------------------------------------------------------------
(* The length, as it is printed and read again.                              *)
LEMMA LengthIs ==
  ASSUME NEW m \in Nat, m > 0
  PROVE  ParseLength(Shown(m)) = IF m \div 1000 > LongestSeconds THEN Absent ELSE m
<1> DEFINE a == (m \div 100) % 10
           b == (m \div 10) % 10
           c == m % 10
           w == m \div 1000
<1>1. /\ a \in Int /\ b \in Int /\ c \in Int /\ w \in Int
      /\ w * 1000 + a * 100 + b * 10 + c = m
  OBVIOUS
<1>2. Shown(m) = [whole |-> w, digits |-> <<a, b, c, 0, 0, 0>>]
  BY DEF Shown
<1> HIDE DEF a, b, c, w
<1> DEFINE digits == <<a, b, c, 0, 0, 0>>
<1>3. Digit(digits, 1) = a /\ Digit(digits, 2) = b /\ Digit(digits, 3) = c
  BY DEF Digit
<1>4. Shown(m).whole = w /\ Shown(m).digits = digits
  BY <1>2
<1> HIDE DEF digits
<1>5. ParseLength(Shown(m)) = IF w > LongestSeconds \/ m = 0 THEN Absent ELSE m
  BY <1>1, <1>3, <1>4 DEF ParseLength
<1> QED
  BY <1>5 DEF w

LEMMA CloseEnough ==
  ASSUME NEW expected \in Nat, NEW m \in Nat, m - expected <= 1000, expected - m <= 1000
  PROVE  ~(Distance(m, expected) > Tolerance(expected))
<1>1. Distance(m, expected) \in Int /\ Distance(m, expected) <= 1000
  BY DEF Distance
<1>2. expected \div 100 \in Int
  OBVIOUS
<1>3. Tolerance(expected) \in Int /\ Tolerance(expected) >= ShortestTolerance
  BY <1>2, ProductionAssumption DEF Tolerance, Larger, Smaller
<1> QED
  BY <1>1, <1>3, ProductionAssumption

-----------------------------------------------------------------------------
(* The verification of what was produced.                                    *)
Accepts(file, selection, expected) ==
    LET video == FirstStream(file, "video")
        audio == FirstStream(file, "audio")
        length == ParseLength(file.length)
    IN  /\ length # Absent /\ ~(Distance(length, expected) > Tolerance(expected))
        /\ selection.kind = "mp3" => file.container = "mp3" /\ audio.codec = "mp3"
        /\ selection.kind # "mp3" =>
              /\ video.type # "none" /\ file.container = "mp4"
              /\ video.codec = "h264" /\ audio.codec = "aac"
              /\ video.height # Absent /\ ~(video.height > selection.quality)
              /\ video.width # Absent /\ video.pixels = "yuv420p"

LEMMA ValidatedIs ==
  ASSUME NEW file, NEW selection, NEW expected
  PROVE  ValidateProbe(file, selection, expected) = "none" <=> Accepts(file, selection, expected)
<1> DEFINE video == FirstStream(file, "video")
           audio == FirstStream(file, "audio")
           length == ParseLength(file.length)
           isMp3 == selection.kind = "mp3"
           a == Check(length = Absent, "no length")
           b == Check(Distance(length, expected) > Tolerance(expected), "length")
           c == Check(isMp3 /\ (file.container # "mp3" \/ audio.codec # "mp3"), "not mp3")
           d == Check(~isMp3 /\ video.type = "none", "no video")
           e == Check(/\ ~isMp3
                      /\ \/ file.container # "mp4"
                         \/ video.codec # "h264" \/ audio.codec # "aac", "not mp4")
           f == Check(~isMp3 /\ video.height = Absent, "no height")
           g == Check(~isMp3 /\ video.height > selection.quality, "height")
           h == Check(~isMp3 /\ video.width = Absent, "no width")
           k == Check(~isMp3 /\ video.pixels # "yuv420p", "pixels")
<1>1. ValidateProbe(file, selection, expected) = FirstFault(<<a, b, c, d, e, f, g, h, k>>)
  BY Zenon DEF ValidateProbe
<1>2. /\ a.fault # "none" /\ b.fault # "none" /\ c.fault # "none" /\ d.fault # "none"
      /\ e.fault # "none" /\ f.fault # "none" /\ g.fault # "none" /\ h.fault # "none"
      /\ k.fault # "none"
  BY Zenon DEF Check
<1>3. /\ a.fails <=> length = Absent
      /\ b.fails <=> Distance(length, expected) > Tolerance(expected)
      /\ c.fails <=> isMp3 /\ (file.container # "mp3" \/ audio.codec # "mp3")
      /\ d.fails <=> ~isMp3 /\ video.type = "none"
      /\ e.fails <=>
            ~isMp3 /\ (file.container # "mp4" \/ video.codec # "h264" \/ audio.codec # "aac")
      /\ f.fails <=> ~isMp3 /\ video.height = Absent
      /\ g.fails <=> ~isMp3 /\ video.height > selection.quality
      /\ h.fails <=> ~isMp3 /\ video.width = Absent
      /\ k.fails <=> ~isMp3 /\ video.pixels # "yuv420p"
  <2> HIDE DEF video, audio, length
  <2> QED
    BY Zenon DEF Check
<1> HIDE DEF a, b, c, d, e, f, g, h, k
<1>4. FirstFault(<<a, b, c, d, e, f, g, h, k>>) = "none" <=>
        ~a.fails /\ ~b.fails /\ ~c.fails /\ ~d.fails /\ ~e.fails /\ ~f.fails /\ ~g.fails
        /\ ~h.fails /\ ~k.fails
  BY <1>2, NineChecks
<1>5. Accepts(file, selection, expected) <=>
        /\ length # Absent /\ ~(Distance(length, expected) > Tolerance(expected))
        /\ isMp3 => file.container = "mp3" /\ audio.codec = "mp3"
        /\ ~isMp3 => /\ video.type # "none" /\ file.container = "mp4"
                     /\ video.codec = "h264" /\ audio.codec = "aac"
                     /\ video.height # Absent /\ ~(video.height > selection.quality)
                     /\ video.width # Absent /\ video.pixels = "yuv420p"
  BY Zenon DEF Accepts
<1> HIDE DEF video, audio, length, isMp3
<1> QED
  BY <1>1, <1>3, <1>4, <1>5, Zenon

LEMMA StreamsAre ==
  ASSUME NEW file, NEW video, NEW audio, file.streams = <<video, audio>>,
         video.type = "video", audio.type = "audio"
  PROVE  FirstStream(file, "video") = video /\ FirstStream(file, "audio") = audio
<1> DEFINE streams == file.streams
           Of(type) == {i \in DOMAIN streams : streams[i].type = type}
<1>1. DOMAIN streams = 1 .. 2 /\ streams[1] = video /\ streams[2] = audio
  OBVIOUS
<1> HIDE DEF streams
<1>2. Of("video") = {1} /\ Of("audio") = {2}
  BY <1>1
<1>3. Min(Of("video")) = 1 /\ Min(Of("audio")) = 2
  BY <1>2, MinIsFirst
<1>4. /\ \E i \in DOMAIN streams : streams[i].type = "video"
      /\ \E i \in DOMAIN streams : streams[i].type = "audio"
  BY <1>1
<1>5. FirstStream(file, "video") = streams[Min(Of("video"))]
  BY <1>4, Zenon DEF FirstStream, FirstWith, streams
<1>6. FirstStream(file, "audio") = streams[Min(Of("audio"))]
  BY <1>4, Zenon DEF FirstStream, FirstWith, streams
<1> QED
  BY <1>1, <1>3, <1>5, <1>6, Zenon

LEMMA StreamIs ==
  ASSUME NEW file, NEW audio, file.streams = <<audio>>, audio.type = "audio"
  PROVE  FirstStream(file, "audio") = audio
<1> DEFINE streams == file.streams
           found == {i \in DOMAIN streams : streams[i].type = "audio"}
<1>1. DOMAIN streams = 1 .. 1 /\ streams[1] = audio
  OBVIOUS
<1> HIDE DEF streams
<1>2. found = {1}
  BY <1>1
<1>3. Min(found) = 1
  BY <1>2, MinIsFirst
<1>4. \E i \in DOMAIN streams : streams[i].type = "audio"
  BY <1>1
<1>5. FirstStream(file, "audio") = streams[Min(found)]
  BY <1>4, Zenon DEF FirstStream, FirstWith, streams
<1> QED
  BY <1>1, <1>3, <1>5, Zenon

(* The length of what was produced.                                          *)
LEMMA LengthAccepted ==
  ASSUME NEW expected \in Nat, NEW m \in Nat, m > 0, m - expected <= 1000, expected - m <= 1000
  PROVE  (/\ ParseLength(Shown(m)) # Absent
          /\ ~(Distance(ParseLength(Shown(m)), expected) > Tolerance(expected)))
         <=> m \div 1000 <= LongestSeconds
<1>1. m \div 1000 \in Int /\ LongestSeconds \in Int
  BY FormatsAssumption
<1>2. m # Absent
  BY DEF Absent
<1>3. ~(Distance(m, expected) > Tolerance(expected))
  BY CloseEnough
<1>4. ParseLength(Shown(m)) = IF m \div 1000 > LongestSeconds THEN Absent ELSE m
  BY LengthIs
<1>5. m \div 1000 > LongestSeconds <=> ~(m \div 1000 <= LongestSeconds)
  BY <1>1
<1>6. CASE m \div 1000 > LongestSeconds
  <2>1. ParseLength(Shown(m)) = Absent
    BY <1>4, <1>6
  <2> QED
    BY <2>1, <1>5, <1>6
<1>7. CASE ~(m \div 1000 > LongestSeconds)
  <2>1. ParseLength(Shown(m)) = m
    BY <1>4, <1>7
  <2> QED
    BY <2>1, <1>2, <1>3, <1>5, <1>7
<1> QED
  BY <1>6, <1>7

LEMMA SoundProducible ==
  ASSUME NEW offer, IsSound(offer), NEW expected \in Nat, NEW m \in Nat, m > 0,
         m - expected <= 1000, expected - m <= 1000, NEW pixels
  PROVE  ValidateProbe(Produce(offer, pixels, m),
                       [kind |-> offer.kind, quality |-> offer.quality], expected) = "none"
         <=> Produced(offer, pixels, m)
<1> DEFINE file == Produce(offer, pixels, m)
           request == [kind |-> offer.kind, quality |-> offer.quality]
           audio == Stream("audio", "mp3", Absent, "none")
<1>1. offer.kind = "mp3"
  BY DEF IsSound, Mp3Offer
<1>2. file = [container |-> "mp3", length |-> Shown(m), streams |-> <<audio>>]
  BY <1>1 DEF Produce
<1>3. audio.type = "audio" /\ audio.codec = "mp3"
  BY DEF Stream
<1> HIDE DEF file, audio
<1>4. file.container = "mp3" /\ file.length = Shown(m) /\ file.streams = <<audio>>
  BY <1>2
<1>5. FirstStream(file, "audio").codec = "mp3"
  BY <1>3, <1>4, StreamIs
<1>6. request.kind = "mp3"
  BY <1>1
<1> HIDE DEF request
<1>7. Accepts(file, request, expected) <=> m \div 1000 <= LongestSeconds
  <2>1. (/\ ParseLength(Shown(m)) # Absent
         /\ ~(Distance(ParseLength(Shown(m)), expected) > Tolerance(expected)))
        <=> m \div 1000 <= LongestSeconds
    BY LengthAccepted
  <2> DEFINE long == Distance(ParseLength(file.length), expected) > Tolerance(expected)
  <2>2. Accepts(file, request, expected) <=>
          /\ ParseLength(file.length) # Absent /\ ~long
          /\ request.kind = "mp3" =>
              file.container = "mp3" /\ FirstStream(file, "audio").codec = "mp3"
          /\ request.kind # "mp3" =>
              /\ FirstStream(file, "video").type # "none" /\ file.container = "mp4"
              /\ FirstStream(file, "video").codec = "h264"
              /\ FirstStream(file, "audio").codec = "aac"
              /\ FirstStream(file, "video").height # Absent
              /\ ~(FirstStream(file, "video").height > request.quality)
              /\ FirstStream(file, "video").width # Absent
              /\ FirstStream(file, "video").pixels = "yuv420p"
    BY ZenonT(60) DEF Accepts
  <2>3. ParseLength(file.length) # Absent /\ ~long <=> m \div 1000 <= LongestSeconds
    BY <2>1, <1>4
  <2> HIDE DEF long
  <2> QED
    BY <2>2, <2>3, <1>4, <1>5, <1>6
<1>8. Produced(offer, pixels, m) <=> m \div 1000 <= LongestSeconds
  <2>1. offer.kind # "mp4"
    BY <1>1
  <2> QED
    BY <2>1 DEF Produced
<1>9. ValidateProbe(file, request, expected) = "none" <=> Produced(offer, pixels, m)
  BY <1>7, <1>8, ValidatedIs
<1> QED
  BY <1>9 DEF file, request

(* The streams that are made for an MP4 offer of a height.                   *)
StreamsFit(offer, h, pixels) ==
    LET video == VideoStream(offer, pixels)
        audio == AudioStream(offer)
    IN  /\ video.type = "video" /\ video.codec = "h264" /\ video.height = h /\ video.width = h
        /\ video.pixels = IF IsLinked(offer) \/ CopiesVideo(offer) THEN pixels ELSE "yuv420p"
        /\ audio.type = "audio" /\ audio.codec = "aac"

LEMMA VideoStreamsAre ==
  ASSUME NEW offer, IsVideo(offer), NEW pixels
  PROVE  StreamsFit(offer, offer.quality, pixels)
<1> DEFINE h == offer.quality
<1>0. PICK height, video, audio :
         height \in Nat \ {0} /\ offer = Mp4Offer(height, video, audio) /\ video.height = height
  BY Zenon DEF IsVideo
<1>1. /\ offer.kind = "mp4" /\ offer.quality = h /\ offer.video = video /\ offer.audio = audio
      /\ offer.work = CompatibilityWork(video, audio) /\ video.height = h
  BY <1>0 DEF Mp4Offer
<1> HIDE DEF h
<1>2. IsLinked(offer) => video.video = "H264" /\ audio.audio = "Aac"
  BY <1>1 DEF IsLinked, CompatibilityWork
<1>3. CopiesVideo(offer) => video.video = "H264"
  BY <1>1 DEF CopiesVideo
<1>4. CopiesAudio(offer) => audio.audio = "Aac"
  BY <1>1 DEF CopiesAudio
<1>5. CodecName("H264") = "h264" /\ CodecName("Aac") = "aac"
  BY DEF CodecName
<1>6. \A codec, size, shown :
        /\ Stream("video", codec, size, shown).type = "video"
        /\ Stream("video", codec, size, shown).codec = codec
        /\ Stream("video", codec, size, shown).height = size
        /\ Stream("video", codec, size, shown).width = size
        /\ Stream("video", codec, size, shown).pixels = shown
        /\ Stream("audio", codec, size, shown).type = "audio"
        /\ Stream("audio", codec, size, shown).codec = codec
  BY DEF Stream
<1>7. VideoStream(offer, pixels) =
        Stream("video", "h264", h,
               IF IsLinked(offer) \/ CopiesVideo(offer) THEN pixels ELSE "yuv420p")
  <2>1. CASE IsLinked(offer) \/ CopiesVideo(offer)
    BY <2>1, <1>1, <1>2, <1>3, <1>5 DEF VideoStream
  <2>2. CASE ~(IsLinked(offer) \/ CopiesVideo(offer))
    BY <2>2, <1>1 DEF VideoStream
  <2> QED
    BY <2>1, <2>2
<1>8. AudioStream(offer) = Stream("audio", "aac", Absent, "none")
  <2>1. CASE IsLinked(offer) \/ CopiesAudio(offer)
    BY <2>1, <1>1, <1>2, <1>4, <1>5 DEF AudioStream
  <2>2. CASE ~(IsLinked(offer) \/ CopiesAudio(offer))
    BY <2>2, <1>1 DEF AudioStream
  <2> QED
    BY <2>1, <2>2
<1> QED
  BY <1>6, <1>7, <1>8 DEF StreamsFit, h

LEMMA VideoProducible ==
  ASSUME NEW offer, IsVideo(offer), NEW expected \in Nat, NEW m \in Nat, m > 0,
         m - expected <= 1000, expected - m <= 1000, NEW pixels
  PROVE  ValidateProbe(Produce(offer, pixels, m),
                       [kind |-> offer.kind, quality |-> offer.quality], expected) = "none"
         <=> Produced(offer, pixels, m)
<1>1. PICK h, source, sound :
         h \in Nat \ {0} /\ offer = Mp4Offer(h, source, sound) /\ source.height = h
  BY DEF IsVideo
<1> DEFINE file == Produce(offer, pixels, m)
           request == [kind |-> offer.kind, quality |-> offer.quality]
           video == VideoStream(offer, pixels)
           audio == AudioStream(offer)
           kept == IsLinked(offer) \/ CopiesVideo(offer)
           container == IF IsLinked(offer) THEN ContainerName(offer.video.container) ELSE "mp4"
           long == Distance(ParseLength(file.length), expected) > Tolerance(expected)
<1>2. offer.kind = "mp4" /\ offer.quality = h /\ offer.video = source
  BY <1>1 DEF Mp4Offer
<1>3. file = [container |-> container, length |-> Shown(m), streams |-> <<video, audio>>]
  <2>1. offer.kind # "mp3"
    BY <1>2
  <2> QED
    BY <2>1 DEF Produce
<1>4. /\ video.type = "video" /\ video.codec = "h264" /\ video.height = h /\ video.width = h
      /\ video.pixels = IF kept THEN pixels ELSE "yuv420p"
      /\ audio.type = "audio" /\ audio.codec = "aac"
  <2>1. StreamsFit(offer, offer.quality, pixels)
    BY VideoStreamsAre
  <2> QED
    BY <2>1, <1>2 DEF StreamsFit
<1>5. container = "mp4" <=> (IsLinked(offer) => IsMp4Family(offer.video))
  BY DEF ContainerName, IsMp4Family
<1>6. request.kind = "mp4" /\ request.quality = h
  BY <1>2
<1> HIDE DEF video, audio, request, container, kept
<1>7. file.container = container /\ file.length = Shown(m) /\ file.streams = <<video, audio>>
  BY <1>3
<1> HIDE DEF file
<1>8. FirstStream(file, "video") = video /\ FirstStream(file, "audio") = audio
  BY <1>4, <1>7, StreamsAre
<1>9. Accepts(file, request, expected) <=>
          /\ ParseLength(file.length) # Absent /\ ~long
          /\ request.kind = "mp3" => file.container = "mp3" /\ audio.codec = "mp3"
          /\ request.kind # "mp3" =>
              /\ video.type # "none" /\ file.container = "mp4"
              /\ video.codec = "h264" /\ audio.codec = "aac"
              /\ video.height # Absent /\ ~(video.height > request.quality)
              /\ video.width # Absent /\ video.pixels = "yuv420p"
  BY <1>8 DEF Accepts
<1>10. ParseLength(file.length) # Absent /\ ~long <=> m \div 1000 <= LongestSeconds
  <2>1. (/\ ParseLength(Shown(m)) # Absent
         /\ ~(Distance(ParseLength(Shown(m)), expected) > Tolerance(expected)))
        <=> m \div 1000 <= LongestSeconds
    BY LengthAccepted
  <2> QED
    BY <2>1, <1>7
<1> HIDE DEF long
<1>11. h # Absent /\ ~(h > h)
  BY <1>1 DEF Absent
<1>12. video.pixels = "yuv420p" <=> (kept => pixels = "yuv420p")
  BY <1>4
<1>13. Accepts(file, request, expected) <=>
          /\ m \div 1000 <= LongestSeconds
          /\ container = "mp4" /\ (kept => pixels = "yuv420p")
  BY <1>4, <1>6, <1>7, <1>9, <1>10, <1>11, <1>12
<1>14. Produced(offer, pixels, m) <=>
          /\ m \div 1000 <= LongestSeconds
          /\ IsLinked(offer) => IsMp4Family(offer.video)
          /\ kept => pixels = "yuv420p"
  BY <1>2 DEF Produced, kept
<1>15. ValidateProbe(file, request, expected) = "none" <=> Produced(offer, pixels, m)
  <2>1. ValidateProbe(file, request, expected) = "none" <=> Accepts(file, request, expected)
    BY ValidatedIs
  <2> QED
    BY <2>1, <1>5, <1>13, <1>14
<1> QED
  BY <1>15 DEF file, request

-----------------------------------------------------------------------------
(* The whole answer.                                                         *)
LEMMA MediaPassed ==
  ASSUME NEW raw, NEW requested, MediaFault(raw, requested) = "none"
  PROVE  /\ raw.id = requested /\ raw.duration \in 1 .. LongestSeconds
         /\ FormatsFault(raw.formats) = "none"
<1> DEFINE a == Check(ContentFault(raw) # "none", "unsupported content")
           b == Check(RequiredFails(raw.id), "id")
           c == Check(raw.id # requested, "id mismatch")
           d == Check(RequiredFails(raw.title), "title")
           e == Check(OptionalFails(raw.uploader), "uploader")
           f == Check(raw.duration \notin 1..LongestSeconds, "duration")
           g == Check(~InRange(raw.views, 0, MaxNumber), "view_count")
           h == Check(DateFails(raw.date), "upload_date")
           k == Check(ThumbnailsFail(raw.thumbnails), "thumbnails")
           l == Check(FormatsFault(raw.formats) # "none", FormatsFault(raw.formats))
<1>1. FirstFault(<<a, b, c, d, e, f, g, h, k, l>>) = "none"
  BY Zenon DEF MediaFault
<1>2. /\ a.fault # "none" /\ b.fault # "none" /\ c.fault # "none" /\ d.fault # "none"
      /\ e.fault # "none" /\ f.fault # "none" /\ g.fault # "none" /\ h.fault # "none"
      /\ k.fault # "none" /\ (l.fails => l.fault # "none")
  BY Zenon DEF Check
<1>3. /\ c.fails <=> raw.id # requested
      /\ f.fails <=> raw.duration \notin 1 .. LongestSeconds
      /\ l.fails <=> FormatsFault(raw.formats) # "none"
  BY Zenon DEF Check
<1> HIDE DEF a, b, c, d, e, f, g, h, k, l
<1>4. ~c.fails /\ ~f.fails /\ ~l.fails
  BY <1>1, <1>2, TenChecks
<1> QED
  BY <1>3, <1>4

LEMMA OffersOfAnswer ==
  ASSUME NEW raws, Identified(raws), FormatsFault(raws) = "none"
  PROVE  LET offers == Offers(Normalized(raws))
         IN  /\ offers # <<>> /\ DOMAIN offers \in SUBSET Nat /\ Distinct(offers)
             /\ \A i \in DOMAIN offers : IsSound(offers[i]) \/ IsVideo(offers[i])
<1>1. Offers(Normalized(raws)) # <<>>
  BY NoFaultAnywhere
<1>2. /\ IsFiniteSet(Normalized(raws))
      /\ \A f \in Normalized(raws) : Format(f)
      /\ \A f, g \in Normalized(raws) : f.id = g.id => f = g
  BY NormalizedIs
<1> QED
  BY <1>1, <1>2, OffersOfNormalized

LEMMA OfferProducible ==
  ASSUME NEW result, result.duration \in Nat \ {0}, DOMAIN result.offers \in SUBSET Nat,
         Distinct(result.offers), NEW i \in DOMAIN result.offers,
         IsSound(result.offers[i]) \/ IsVideo(result.offers[i])
  PROVE  OfferIsProducible(result, result.offers[i])
<1> DEFINE offer    == result.offers[i]
           request  == [kind |-> offer.kind, quality |-> offer.quality]
           expected == result.duration * 1000
<1>1. ResolveFormat(result.offers, request) = offer
  BY OfferResolves
<1>2. NothingSuppressed(ReportedStages(offer))
  BY StagesAllowed
<1>3. expected \in Nat
  OBVIOUS
<1> HIDE DEF expected
<1>4. ASSUME NEW off \in {-1000, -1, 0, 1000}, NEW pixels \in {"yuv420p", "yuv444p"},
             expected + off > 0
      PROVE  ValidateProbe(Produce(offer, pixels, expected + off), request, expected) = "none"
             <=> Produced(offer, pixels, expected + off)
  <2> DEFINE m == expected + off
  <2>1. m \in Nat /\ m > 0 /\ m - expected <= 1000 /\ expected - m <= 1000
    BY <1>3, <1>4
  <2> HIDE DEF m, offer
  <2>2. IsSound(offer) \/ IsVideo(offer)
    BY DEF offer
  <2>3. ValidateProbe(Produce(offer, pixels, m), request, expected) = "none"
        <=> Produced(offer, pixels, m)
    BY <1>3, <2>1, <2>2, SoundProducible, VideoProducible
  <2> QED
    BY <2>3 DEF m
<1> QED
  BY <1>1, <1>2, <1>4 DEF OfferIsProducible, expected

(* The formats of the answer are a list, with identities the order knows.    *)
KnownAnswer == probe.about = "media" => Identified(probe.answer.raw.formats)

(* Whatever yt-dlp answers about a video: everything the analysis offers can *)
(* be had.  The request for an offer resolves to that offer and no other,    *)
(* the stages on its way may follow each other, and what is made of its      *)
(* sources passes the verification exactly when nothing that is kept as it   *)
(* is stands in the way (analysis/ytdlp.rs:612, download/service.rs:827,     *)
(* :1500, :1595).                                                            *)
THEOREM OffersAreAlwaysProducible ==
  ASSUME KnownAnswer
  PROVE  OffersAreProducible
<1> SUFFICES ASSUME probe.about = "media" PROVE ResultIsProducible(Analyze(probe.answer, "first"))
  BY Zenon DEF OffersAreProducible
<1> DEFINE answer == probe.answer
           raws   == answer.raw.formats
           result == Analyze(answer, "first")
<1>1. SUFFICES ASSUME result.fault = "none"
               PROVE  /\ result.id = "first" /\ result.offers # <<>>
                      /\ \A i \in DOMAIN result.offers : OfferIsProducible(result, result.offers[i])
  BY Zenon DEF ResultIsProducible
<1>2. Identified(raws)
  BY Zenon DEF KnownAnswer
<1>3. ProcessFault(answer) = "none" /\ MediaFault(answer.raw, "first") = "none"
  <2> HIDE DEF answer
  <2>1. \A fault : [fault |-> fault].fault = fault
    OBVIOUS
  <2>2. CASE ProcessFault(answer) # "none"
    <3>1. result = [fault |-> ProcessFault(answer)]
      BY <2>2, Zenon DEF Analyze
    <3> QED
      BY <2>1, <2>2, <3>1, <1>1, Zenon
  <2>3. CASE ProcessFault(answer) = "none" /\ MediaFault(answer.raw, "first") # "none"
    <3>1. result = [fault |-> MediaFault(answer.raw, "first")]
      BY <2>3, Zenon DEF Analyze
    <3> QED
      BY <2>1, <2>3, <3>1, <1>1, Zenon
  <2> QED
    BY <2>2, <2>3, Zenon
<1>4. result = [fault |-> "none", id |-> answer.raw.id, duration |-> answer.raw.duration,
                offers |-> Offers(Normalized(raws))]
  BY <1>3, Zenon DEF Analyze
<1>5. /\ answer.raw.id = "first" /\ answer.raw.duration \in 1 .. LongestSeconds
      /\ FormatsFault(raws) = "none"
  BY <1>3, MediaPassed
<1>6. /\ Offers(Normalized(raws)) # <<>> /\ DOMAIN Offers(Normalized(raws)) \in SUBSET Nat
      /\ Distinct(Offers(Normalized(raws)))
      /\ \A i \in DOMAIN Offers(Normalized(raws)) :
            IsSound(Offers(Normalized(raws))[i]) \/ IsVideo(Offers(Normalized(raws))[i])
  BY <1>2, <1>5, OffersOfAnswer
<1> HIDE DEF result, raws, answer
<1>7. /\ result.id = answer.raw.id /\ result.duration = answer.raw.duration
      /\ result.offers = Offers(Normalized(raws))
  BY <1>4
<1>8. result.duration \in Nat \ {0}
  BY <1>5, <1>7, FormatsAssumption
<1>9. \A i \in DOMAIN result.offers : OfferIsProducible(result, result.offers[i])
  BY <1>6, <1>7, <1>8, OfferProducible
<1> QED
  BY <1>5, <1>6, <1>7, <1>9

(* What the probes of a run ask about a video is such an answer.             *)
AskedMedia == KnownAnswer /\ "about" \in DOMAIN probe

(* The order of the identities knows those of the run.                       *)
RunIdsKnown == \A id \in {"f1", "f2", "f3"} : \E k \in DOMAIN FormatIds : FormatIds[k] = id

IdKnown(raw) == RequiredFails(raw.id) \/ \E k \in DOMAIN FormatIds : FormatIds[k] = raw.id

LEMMA KnownOf ==
  ASSUME NEW R, NEW raws \in Seq(R), \A raw \in R : IdKnown(raw)
  PROVE  Identified(raws)
<1>1. DOMAIN raws = 1 .. Len(raws) /\ Len(raws) \in Nat /\ \A i \in DOMAIN raws : raws[i] \in R
  OBVIOUS
<1> QED
  BY <1>1, Zenon DEF Identified, IdKnown

LEMMA DeviationIs ==
  ASSUME NEW record, NEW values, NEW x \in Deviations(record, values),
         NEW field, field \in DOMAIN record
  PROVE  x[field] = record[field] \/ (field \in DOMAIN values /\ x[field] \in values[field])
<1>1. CASE x = record
  BY <1>1
<1>2. ASSUME NEW other \in DOMAIN values, NEW value \in values[other],
             x = [record EXCEPT ![other] = value]
      PROVE  x[field] = record[field] \/ (field \in DOMAIN values /\ x[field] \in values[field])
  <2>1. CASE other = field
    BY <2>1, <1>2
  <2>2. CASE other # field
    BY <2>2, <1>2
  <2> QED
    BY <2>1, <2>2
<1>3. x = record \/ \E other \in DOMAIN values : \E value \in values[other] :
                        x = [record EXCEPT ![other] = value]
  BY Zenon DEF Deviations
<1> QED
  BY <1>1, <1>2, <1>3

LEMMA RawFormatIs ==
  ASSUME NEW id, NEW ext, NEW vcodec, NEW acodec, NEW height, NEW rate
  PROVE  LET raw == RawFormat(id, ext, vcodec, acodec, height, rate)
         IN  raw.id = id /\ "id" \in DOMAIN raw
  BY DEF RawFormat

LEMMA RunIdIs ==
  ASSUME RunIdsKnown, NEW id \in {"f1", "f2", "f3"}, NEW raw, raw.id = id
  PROVE  IdKnown(raw)
  BY Zenon DEF RunIdsKnown, IdKnown

LEMMA GoodFormatsAre ==
  ASSUME RunIdsKnown
  PROVE  /\ GoodFormats = <<GoodFormats[1], GoodFormats[2]>>
         /\ GoodFormats[1].id = "f1" /\ "id" \in DOMAIN GoodFormats[1]
         /\ IdKnown(GoodFormats[1]) /\ IdKnown(GoodFormats[2])
<1> DEFINE a == RawFormat("f1", "webm", "vp9", "none", 720, 1)
           b == RawFormat("f2", "mp4", "avc1", "mp4a", 360, 0)
<1>1. a.id = "f1" /\ b.id = "f2" /\ "id" \in DOMAIN a
  BY RawFormatIs
<1>2. GoodFormats = <<a, b>>
  BY DEF GoodFormats
<1> HIDE DEF a, b
<1>3. IdKnown(a) /\ IdKnown(b)
  BY <1>1, RunIdIs
<1> QED
  BY <1>1, <1>2, <1>3

LEMMA OddFormatsKnown ==
  ASSUME RunIdsKnown, NEW raw \in OddFormats
  PROVE  IdKnown(raw)
<1>1. "id" \in DOMAIN GoodFormats[1] /\ GoodFormats[1].id = "f1"
  BY GoodFormatsAre
<1>2. PICK a, b, c, d, e, f, g, h, k, l, m, n :
         /\ a = {"missing", "f2"}
         /\ raw \in Deviations(GoodFormats[1],
                [id |-> a, ext |-> b, vcodec |-> c, acodec |-> d, height |-> e, width |-> f,
                 fps |-> g, size |-> h, approximate |-> k, tbr |-> l, vbr |-> m, abr |-> n])
  BY Zenon DEF OddFormats
<1> DEFINE values == [id |-> a, ext |-> b, vcodec |-> c, acodec |-> d, height |-> e, width |-> f,
                      fps |-> g, size |-> h, approximate |-> k, tbr |-> l, vbr |-> m, abr |-> n]
<1>3. values["id"] = a
  OBVIOUS
<1> HIDE DEF values
<1>4. raw \in Deviations(GoodFormats[1], values)
  BY <1>2 DEF values
<1>5. raw["id"] = GoodFormats[1]["id"] \/ raw["id"] \in values["id"]
  BY <1>1, <1>4, DeviationIs
<1>6. raw.id = "f1" \/ raw.id = "f2" \/ raw.id = "missing"
  BY <1>1, <1>2, <1>3, <1>5
<1>7. RequiredFails("missing")
  BY Zenon DEF RequiredFails, UnusableText
<1> QED
  BY <1>6, <1>7, RunIdIs, Zenon DEF IdKnown

LEMMA RawMediaIs ==
  ASSUME NEW formats
  PROVE  RawMedia(formats).formats = formats /\ "formats" \in DOMAIN RawMedia(formats)
  BY DEF RawMedia

LEMMA AnsweredIs ==
  ASSUME NEW raw
  PROVE  Answered(raw).raw = raw /\ "raw" \in DOMAIN Answered(raw)
  BY DEF Answered

LEMMA TwoFormatsKnown ==
  ASSUME NEW a, NEW b, IdKnown(a), IdKnown(b)
  PROVE  Identified(<<a, b>>)
<1> DEFINE R == {a, b}
<1>1. <<a, b>> \in Seq(R) /\ \A raw \in R : IdKnown(raw)
  OBVIOUS
<1> HIDE DEF R
<1> QED
  BY <1>1, KnownOf

LEMMA GoodMediaKnown ==
  ASSUME RunIdsKnown
  PROVE  Identified(GoodFormats) /\ Identified(GoodFormats \o GoodFormats)
<1>1. PICK a, b : GoodFormats = <<a, b>> /\ IdKnown(a) /\ IdKnown(b)
  BY GoodFormatsAre
<1> DEFINE R == {a, b}
<1>2. GoodFormats \in Seq(R) /\ \A raw \in R : IdKnown(raw)
  BY <1>1
<1> HIDE DEF R
<1>3. GoodFormats \o GoodFormats \in Seq(R)
  BY <1>2, ConcatProperties
<1>5. Identified(GoodFormats)
  BY <1>2, KnownOf
<1>6. Identified(GoodFormats \o GoodFormats)
  BY <1>2, <1>3, KnownOf
<1> QED
  BY <1>5, <1>6

LEMMA OddMediaKnown ==
  ASSUME RunIdsKnown, NEW raw \in OddMedia
  PROVE  Identified(raw.formats)
<1>1. PICK a, b, c, d, e, f, g, h, k, l, m :
         raw \in Deviations(RawMedia(GoodFormats),
                [type |-> a, isLive |-> b, liveStatus |-> c, availability |-> d, id |-> e,
                 title |-> f, uploader |-> g, duration |-> h, views |-> k, date |-> l,
                 thumbnails |-> m, formats |-> OddLists])
  BY ZenonT(60) DEF OddMedia
<1> DEFINE values == [type |-> a, isLive |-> b, liveStatus |-> c, availability |-> d, id |-> e,
                      title |-> f, uploader |-> g, duration |-> h, views |-> k, date |-> l,
                      thumbnails |-> m, formats |-> OddLists]
<1>2. values["formats"] = OddLists
  OBVIOUS
<1> HIDE DEF values
<1>3. raw \in Deviations(RawMedia(GoodFormats), values)
  BY <1>1 DEF values
<1>4. RawMedia(GoodFormats).formats = GoodFormats /\ "formats" \in DOMAIN RawMedia(GoodFormats)
  BY RawMediaIs
<1>5. raw["formats"] = RawMedia(GoodFormats)["formats"] \/ raw["formats"] \in values["formats"]
  BY <1>3, <1>4, DeviationIs
<1>6. raw.formats = GoodFormats \/ raw.formats \in OddLists
  BY <1>2, <1>4, <1>5
<1>7. Identified(GoodFormats) /\ Identified(GoodFormats \o GoodFormats)
  BY GoodMediaKnown
<1>8. Identified(<<>>)
  <2> DEFINE R == {}
  <2>1. <<>> \in Seq(R) /\ \A one \in R : IdKnown(one)
    OBVIOUS
  <2> HIDE DEF R
  <2> QED
    BY <2>1, KnownOf
<1>9. Identified(<< RawFormat("f1", "mp4", "avc1", "none", 360, 1) >>)
  <2> DEFINE one == RawFormat("f1", "mp4", "avc1", "none", 360, 1)
  <2>1. one.id = "f1"
    BY RawFormatIs
  <2> HIDE DEF one
  <2>2. IdKnown(one)
    BY <2>1, RunIdIs
  <2> DEFINE R == {one}
  <2>3. << one >> \in Seq(R) /\ \A it \in R : IdKnown(it)
    BY <2>2
  <2> HIDE DEF R
  <2>4. Identified(<< one >>)
    BY <2>3, KnownOf
  <2> QED
    BY <2>4 DEF one
<1>10. ASSUME NEW one \in OddFormats PROVE Identified(<<one, GoodFormats[2]>>)
  <2>1. IdKnown(one) /\ IdKnown(GoodFormats[2])
    BY OddFormatsKnown, GoodFormatsAre
  <2> QED
    BY <2>1, TwoFormatsKnown
<1> QED
  BY <1>6, <1>7, <1>8, <1>9, <1>10, Zenon DEF OddLists

LEMMA OddAnswersKnown ==
  ASSUME RunIdsKnown, NEW answer \in OddAnswers
  PROVE  Identified(answer.raw.formats)
<1> DEFINE good == Answered(RawMedia(GoodFormats))
<1>1. PICK a, b : answer \in Deviations(good, [ended |-> a, output |-> b])
  BY Zenon DEF OddAnswers
<1> DEFINE values == [ended |-> a, output |-> b]
<1>2. "raw" \notin DOMAIN values
  OBVIOUS
<1>3. good.raw = RawMedia(GoodFormats) /\ "raw" \in DOMAIN good
  BY AnsweredIs
<1> HIDE DEF values, good
<1>4. answer \in Deviations(good, values)
  BY <1>1 DEF values
<1>5. answer["raw"] = good["raw"]
  BY <1>2, <1>3, <1>4, DeviationIs
<1>6. answer.raw = RawMedia(GoodFormats)
  BY <1>3, <1>5
<1>7. answer.raw.formats = GoodFormats
  BY <1>6, RawMediaIs
<1> QED
  BY <1>7, GoodMediaKnown

LEMMA AnyFormatKnown ==
  ASSUME RunIdsKnown, NEW id \in {"f1", "f2", "f3"}, NEW raw \in AnyFormat(id)
  PROVE  IdKnown(raw)
<1>1. PICK ext, vcodec, acodec, height, rate :
         raw = RawFormat(id, ext, vcodec, acodec, height, rate)
  BY DEF AnyFormat
<1>2. raw.id = id
  BY <1>1, RawFormatIs
<1> QED
  BY <1>2, RunIdIs

LEMMA SoundIs ==
  ASSUME RunIdsKnown, NEW sound \in Sound
  PROVE  \E c : IdKnown(c) /\ sound \in Seq({c})
<1> DEFINE a == RawFormat("f3", "m4a", "none", "mp4a", Absent, 1)
           b == RawFormat("f3", "webm", "none", "opus", Absent, 1)
<1>1. a.id = "f3" /\ b.id = "f3"
  BY RawFormatIs
<1>2. sound = <<>> \/ sound = <<a>> \/ sound = <<b>>
  BY Zenon DEF Sound
<1> HIDE DEF a, b
<1>3. IdKnown(a) /\ IdKnown(b)
  BY <1>1, RunIdIs
<1>4. <<>> \in Seq({a}) /\ <<a>> \in Seq({a}) /\ <<b>> \in Seq({b})
  OBVIOUS
<1> QED
  BY <1>2, <1>3, <1>4

LEMMA AskedFormatsKnown ==
  ASSUME RunIdsKnown, NEW first \in AnyFormat("f1"), NEW second \in AnyFormat("f2"),
         NEW sound \in Sound
  PROVE  Identified(<<first, second>> \o sound)
<1>1. IdKnown(first) /\ IdKnown(second)
  BY AnyFormatKnown
<1>2. PICK c : IdKnown(c) /\ sound \in Seq({c})
  BY SoundIs
<1> DEFINE R == {first, second, c}
<1>3. \A raw \in R : IdKnown(raw)
  BY <1>1, <1>2
<1>4. {c} \subseteq R /\ first \in R /\ second \in R
  OBVIOUS
<1> HIDE DEF R
<1>5. <<first, second>> \in Seq(R) /\ sound \in Seq(R)
  BY <1>2, <1>4
<1>6. <<first, second>> \o sound \in Seq(R)
  BY <1>5, ConcatProperties
<1> QED
  BY <1>3, <1>6, KnownOf

LEMMA MediaAsked ==
  ASSUME NEW answer, Identified(answer.raw.formats), probe' = [about |-> "media", answer |-> answer]
  PROVE  AskedMedia'
<1>1. probe'.answer = answer /\ "about" \in DOMAIN probe'
  BY Zenon
<1> QED
  BY <1>1, Zenon DEF AskedMedia, KnownAnswer

LEMMA OtherThanMedia ==
  ASSUME "about" \in DOMAIN probe', probe'.about # "media"
  PROVE  AskedMedia'
  BY DEF AskedMedia, KnownAnswer

LEMMA AskedMediaStays ==
  ASSUME RunIdsKnown, AskedMedia, [ProbeNext]_probe
  PROVE  AskedMedia'
<1>1. CASE AskFormats
  <2>1. PICK first \in AnyFormat("f1"), second \in AnyFormat("f2"), sound \in Sound :
           ProbeMedia(Answered(RawMedia(<<first, second>> \o sound)))
    BY <1>1, Zenon DEF AskFormats
  <2> DEFINE answer == Answered(RawMedia(<<first, second>> \o sound))
  <2>2. answer.raw.formats = <<first, second>> \o sound
    BY AnsweredIs, RawMediaIs
  <2>3. Identified(<<first, second>> \o sound)
    BY AskedFormatsKnown
  <2>4. probe' = [about |-> "media", answer |-> answer]
    BY <2>1, Zenon DEF ProbeMedia
  <2> HIDE DEF answer
  <2> QED
    BY <2>2, <2>3, <2>4, MediaAsked
<1>2. CASE AskMedia
  <2>1. PICK raw \in OddMedia : ProbeMedia(Answered(raw))
    BY <1>2, Zenon DEF AskMedia
  <2> DEFINE answer == Answered(raw)
  <2>2. Identified(answer.raw.formats)
    BY OddMediaKnown, AnsweredIs
  <2>3. probe' = [about |-> "media", answer |-> answer]
    BY <2>1, Zenon DEF ProbeMedia
  <2> HIDE DEF answer
  <2> QED
    BY <2>2, <2>3, MediaAsked
<1>3. CASE AskAnswer
  <2>1. PICK answer \in OddAnswers : ProbeMedia(answer)
    BY <1>3, Zenon DEF AskAnswer
  <2>2. Identified(answer.raw.formats)
    BY OddAnswersKnown
  <2>3. probe' = [about |-> "media", answer |-> answer]
    BY <2>1, Zenon DEF ProbeMedia
  <2> QED
    BY <2>2, <2>3, MediaAsked
<1>4. CASE AskName \/ AskNames
  <2>1. \/ \E text : probe' = [about |-> "name", text |-> text]
        \/ \E formats, containers :
              probe' = [about |-> "names", formats |-> formats, containers |-> containers]
    BY <1>4, Zenon DEF AskName, AskNames
  <2> QED
    BY <2>1, OtherThanMedia
<1>5. CASE Begin
  <2>1. "about" \in DOMAIN probe' /\ probe'.about = "download"
    BY <1>5 DEF Begin
  <2> QED
    BY <2>1, OtherThanMedia
<1>6. CASE BeginConversion
  <2>1. probe' = [about |-> "conversion", reads |-> <<>>]
    BY <1>6 DEF BeginConversion
  <2> QED
    BY <2>1, OtherThanMedia
<1>7. CASE ReadMore \/ ConvertMore
  <2>1. probe.about \in {"download", "conversion"}
    BY <1>7, Zenon DEF ReadMore, ConvertMore, MayRead
  <2>2. \E reads : probe' = [probe EXCEPT !.reads = reads]
    BY <1>7, Zenon DEF ReadMore, ConvertMore
  <2>3. "about" \in DOMAIN probe' /\ probe'.about = probe.about
    BY <2>2 DEF AskedMedia
  <2> QED
    BY <2>1, <2>3, OtherThanMedia
<1>8. CASE AskUpdate
  <2>1. \E update : probe' = [about |-> "update", update |-> update]
    BY <1>8, Zenon DEF AskUpdate
  <2> QED
    BY <2>1, OtherThanMedia
<1>9. CASE AskTools
  <2>1. \E config : probe' = [about |-> "tools", config |-> config]
    BY <1>9, Zenon DEF AskTools
  <2> QED
    BY <2>1, OtherThanMedia
<1>10. CASE UNCHANGED probe
  BY <1>10 DEF AskedMedia, KnownAnswer
<1> QED
  BY <1>1, <1>2, <1>3, <1>4, <1>5, <1>6, <1>7, <1>8, <1>9, <1>10 DEF ProbeNext

(* Everything the answers of a run lead to an offer of can be had, whatever  *)
(* the limits are (analysis/ytdlp.rs:612, download/service.rs:827).          *)
THEOREM OffersStayProducible ==
  ASSUME RunIdsKnown
  PROVE  ProbeSpec => []OffersAreProducible
<1>1. ProbeInit => AskedMedia
  BY DEF ProbeInit, Nothing, AskedMedia, KnownAnswer
<1>2. AskedMedia /\ [ProbeNext]_probe => AskedMedia'
  BY AskedMediaStays
<1>3. AskedMedia => OffersAreProducible
  BY OffersAreAlwaysProducible DEF AskedMedia
<1> QED
  BY <1>1, <1>2, <1>3, PTL DEF ProbeSpec

-----------------------------------------------------------------------------
(* Recursion.  What a step makes of a value of a set, for each position of a *)
(* list, can be repeated over the list.                                      *)
Steps(T, base, N, step) == base \in T /\ N \in Nat /\ step \in [1 .. N -> [T -> T]]
Repeats(f, T, base, N, step) ==
    /\ f \in [0 .. N -> T] /\ f[0] = base
    /\ \A n \in 1 .. N : f[n] = step[n][f[n - 1]]

LEMMA RecursionExists ==
  ASSUME NEW T, NEW base, NEW N, NEW step, Steps(T, base, N, step)
  PROVE  \E f : Repeats(f, T, base, N, step)
<1> USE DEF Steps
<1> DEFINE Is(f, n) == /\ f \in [0 .. n -> T] /\ f[0] = base
                       /\ \A k \in 1 .. n : f[k] = step[k][f[k - 1]]
           S == {n \in Nat : n <= N => \E f : Is(f, n)}
<1>1. 0 \in S
  <2>1. Is([k \in 0 .. 0 |-> base], 0)
    OBVIOUS
  <2> HIDE DEF Is
  <2> QED
    BY <2>1
<1>2. ASSUME NEW n \in Nat, n \in S PROVE n + 1 \in S
  <2> SUFFICES ASSUME n + 1 <= N PROVE \E f : Is(f, n + 1)
    OBVIOUS
  <2>1. PICK f : Is(f, n)
    <3> HIDE DEF Is
    <3> QED
      BY <1>2
  <2> DEFINE g == [k \in 0 .. n + 1 |-> IF k = n + 1 THEN step[n + 1][f[n]] ELSE f[k]]
  <2>2. n + 1 \in 1 .. N /\ n \in 0 .. n
    OBVIOUS
  <2>3. step[n + 1] \in [T -> T] /\ f[n] \in T
    BY <2>1, <2>2
  <2>4. step[n + 1][f[n]] \in T
    BY <2>3
  <2>5. g \in [0 .. n + 1 -> T] /\ g[0] = base
    BY <2>1, <2>4
  <2>6. ASSUME NEW k \in 1 .. n + 1 PROVE g[k] = step[k][g[k - 1]]
    <3>1. CASE k = n + 1
      BY <3>1
    <3>2. CASE k # n + 1
      <4>1. k \in 1 .. n /\ g[k] = f[k] /\ g[k - 1] = f[k - 1]
        BY <3>2
      <4> QED
        BY <2>1, <4>1
    <3> QED
      BY <3>1, <3>2
  <2>7. Is(g, n + 1)
    BY <2>5, <2>6
  <2> HIDE DEF Is, g
  <2> QED
    BY <2>7
<1>3. N \in S
  <2> HIDE DEF S
  <2> QED
    BY <1>1, <1>2, NatInductionOn
<1>4. PICK f : Is(f, N)
  <2> HIDE DEF Is
  <2> QED
    BY <1>3
<1> QED
  BY <1>4 DEF Repeats

(* What every step keeps holds at every position.                            *)
LEMMA KeptAlong ==
  ASSUME NEW S, NEW N \in Nat, 0 \in S, \A n \in 0 .. N - 1 : n \in S => n + 1 \in S
  PROVE  0 .. N \subseteq S
<1> DEFINE U == {n \in Nat : n <= N => n \in S}
<1>1. 0 \in U
  OBVIOUS
<1>2. \A n \in Nat : n \in U => n + 1 \in U
  OBVIOUS
<1>3. Nat \subseteq U
  <2> HIDE DEF U
  <2> QED
    BY <1>1, <1>2, NatInductionOn
<1> QED
  BY <1>3

(* A function defined by recursion along a list is what its definition says. *)
LEMMA RecursionIs ==
  ASSUME NEW T, NEW base, NEW N, NEW step, Steps(T, base, N, step),
         NEW g, g = [n \in 0 .. N |-> IF n = 0 THEN base ELSE g[n]],
         \A n \in 1 .. N : g[n - 1] \in T => g[n] = step[n][g[n - 1]]
  PROVE  Repeats(g, T, base, N, step)
<1> USE DEF Steps
<1> DEFINE S == {n \in 0 .. N : g[n] \in T}
<1>1. 0 \in S
  OBVIOUS
<1>2. ASSUME NEW n \in 0 .. N - 1, n \in S PROVE n + 1 \in S
  <2>1. n + 1 \in 1 .. N /\ (n + 1) - 1 = n
    OBVIOUS
  <2>2. step[n + 1] \in [T -> T] /\ g[n + 1] = step[n + 1][g[n]]
    BY <1>2, <2>1
  <2> QED
    BY <1>2, <2>1, <2>2
<1>3. 0 .. N \subseteq S
  <2> HIDE DEF S
  <2> QED
    BY <1>1, <1>2, KeptAlong
<1>4. \A n \in 0 .. N : g[n] \in T
  BY <1>3
<1>5. DOMAIN g = 0 .. N /\ g = [n \in 0 .. N |-> g[n]]
  OBVIOUS
<1>6. g \in [0 .. N -> T]
  BY <1>4, <1>5
<1>7. \A n \in 1 .. N : n - 1 \in 0 .. N
  OBVIOUS
<1> QED
  BY <1>4, <1>6, <1>7 DEF Repeats

-----------------------------------------------------------------------------
(* Sums.                                                                     *)
LEMMA FunctionIsSeq ==
  ASSUME NEW S, NEW n \in Nat, NEW f \in [1 .. n -> S]
  PROVE  f \in Seq(S) /\ Len(f) = n /\ DOMAIN f = 1 .. n
<1>1. f \in Seq(S)
  BY SeqDef
<1> QED
  BY <1>1

LEMMA SumExists ==
  ASSUME NEW n \in Nat, NEW f \in [1 .. n -> Int]
  PROVE  \E total \in [0 .. n -> Int] :
            /\ total[0] = 0 /\ SumOf(f) = total[n]
            /\ \A k \in 1 .. n : total[k] = total[k - 1] + f[k]
<1> DEFINE step == [k \in 1 .. n |-> [t \in Int |-> t + f[k]]]
           Step(g, k) == IF k = 0 THEN 0 ELSE g[k - 1] + f[k]
           total == CHOOSE g : g = [k \in 0 .. n |-> Step(g, k)]
<1>1. Steps(Int, 0, n, step)
  BY DEF Steps
<1>2. \A k \in 1 .. n : \A t \in Int : step[k][t] = t + f[k]
  OBVIOUS
<1> HIDE DEF step
<1>13. PICK g : Repeats(g, Int, 0, n, step)
  BY <1>1, RecursionExists, Zenon
<1>3. g \in [0 .. n -> Int] /\ g[0] = 0 /\ \A k \in 1 .. n : g[k] = step[k][g[k - 1]]
  BY <1>13 DEF Repeats
<1>4. \A k \in 0 .. n : g[k] = Step(g, k)
  <2>1. \A k \in 1 .. n : k - 1 \in 0 .. n /\ k # 0
    OBVIOUS
  <2>2. \A k \in 1 .. n : g[k] = g[k - 1] + f[k]
    BY <1>2, <1>3, <2>1
  <2> QED
    BY <1>3, <2>2
<1>5. g = [k \in 0 .. n |-> Step(g, k)]
  <2> HIDE DEF Step
  <2> QED
    BY <1>3, <1>4
<1>6. total = [k \in 0 .. n |-> Step(total, k)]
  <2> HIDE DEF Step
  <2> QED
    BY <1>5
<1>7. SumOf(f) = total[n]
  BY FunctionIsSeq DEF SumOf
<1> HIDE DEF total
<1>8. \A k \in 0 .. n : total[k] = Step(total, k)
  <2> HIDE DEF Step
  <2> QED
    BY <1>6, Zenon
<1>9. total = [k \in 0 .. n |-> IF k = 0 THEN 0 ELSE total[k]]
  <2>1. \A k \in 0 .. n : total[k] = IF k = 0 THEN 0 ELSE total[k]
    BY <1>8
  <2>2. DOMAIN total = 0 .. n /\ total = [k \in DOMAIN total |-> total[k]]
    <3> HIDE DEF Step
    <3> QED
      BY <1>6
  <2> QED
    BY <2>1, <2>2
<1>12. total[0] = 0 /\ \A k \in 1 .. n : total[k] = total[k - 1] + f[k]
  <2>1. \A k \in 1 .. n : k \in 0 .. n /\ k # 0
    OBVIOUS
  <2>2. 0 \in 0 .. n
    OBVIOUS
  <2> QED
    BY <1>8, <2>1, <2>2, Zenon
<1>10. \A k \in 1 .. n : total[k - 1] \in Int => total[k] = step[k][total[k - 1]]
  BY <1>2, <1>12
<1>11. total \in [0 .. n -> Int] /\ \A k \in 1 .. n : total[k] = step[k][total[k - 1]]
  <2>1. Repeats(total, Int, 0, n, step)
    BY <1>1, <1>9, <1>10, RecursionIs, Zenon
  <2> QED
    BY <2>1, Zenon DEF Repeats
<1> QED
  BY <1>7, <1>11, <1>12

LEMMA Regrouped ==
  ASSUME NEW x \in Int, NEW y \in Int, NEW z \in Int
  PROVE  (x + y) + z = x + (y + z)
  OBVIOUS

LEMMA Replaced ==
  ASSUME NEW x \in Int, NEW y \in Int, NEW z \in Int
  PROVE  x + z = (x + y) - y + z
  OBVIOUS

LEMMA SumIsInt ==
  ASSUME NEW n \in Nat, NEW f \in [1 .. n -> Int]
  PROVE  SumOf(f) \in Int
  BY SumExists

(* Two lists that differ in one place.                                       *)
LEMMA SumChanges ==
  ASSUME NEW n \in Nat, NEW f \in [1 .. n -> Int], NEW g \in [1 .. n -> Int],
         NEW k \in 1 .. n, \A i \in 1 .. n : i # k => g[i] = f[i]
  PROVE  SumOf(g) = SumOf(f) - f[k] + g[k]
<1>1. PICK a \in [0 .. n -> Int] : /\ a[0] = 0 /\ SumOf(f) = a[n]
                                  /\ \A i \in 1 .. n : a[i] = a[i - 1] + f[i]
  BY SumExists
<1>2. PICK b \in [0 .. n -> Int] : /\ b[0] = 0 /\ SumOf(g) = b[n]
                                  /\ \A i \in 1 .. n : b[i] = b[i - 1] + g[i]
  BY SumExists
<1> DEFINE S == {i \in 0 .. n : b[i] = IF i < k THEN a[i] ELSE a[i] - f[k] + g[k]}
<1>3. 0 \in S
  BY <1>1, <1>2
<1>4. ASSUME NEW i \in 0 .. n - 1, i \in S PROVE i + 1 \in S
  <2>1. i + 1 \in 1 .. n /\ (i + 1) - 1 = i
    OBVIOUS
  <2>2. a[i + 1] = a[i] + f[i + 1] /\ b[i + 1] = b[i] + g[i + 1]
    BY <1>1, <1>2, <2>1
  <2>3. a[i] \in Int /\ b[i] \in Int /\ f[i + 1] \in Int /\ f[k] \in Int /\ g[k] \in Int
    BY <2>1
  <2>6. b[i] = IF i < k THEN a[i] ELSE a[i] - f[k] + g[k]
    BY <1>4
  <2> SUFFICES b[i + 1] = IF i + 1 < k THEN a[i + 1] ELSE a[i + 1] - f[k] + g[k]
    BY <2>1
  <2> HIDE DEF S
  <2>4. CASE i + 1 = k
    <3>1. i < k /\ ~(i + 1 < k)
      BY <2>4
    <3>2. b[i + 1] = a[i] + g[k] /\ a[i + 1] = a[i] + f[k]
      BY <2>2, <2>4, <2>6, <3>1
    <3>3. a[i] + g[k] = (a[i] + f[k]) - f[k] + g[k]
      BY <2>3, Replaced, Zenon
    <3> QED
      BY <3>1, <3>2, <3>3, Zenon
  <2>5. CASE i + 1 # k
    <3>1. g[i + 1] = f[i + 1] /\ (i + 1 < k <=> i < k)
      BY <2>1, <2>5
    <3>2. CASE i < k
      BY <2>2, <2>6, <3>1, <3>2
    <3>3. CASE ~(i < k)
      <4>1. b[i + 1] = (a[i] - f[k] + g[k]) + f[i + 1] /\ a[i + 1] = a[i] + f[i + 1]
        BY <2>2, <2>6, <3>1, <3>3
      <4>2. (a[i] - f[k] + g[k]) + f[i + 1] = (a[i] + f[i + 1]) - f[k] + g[k]
        <5> DEFINE x == a[i]
                   y == f[k]
                   z == g[k]
                   w == f[i + 1]
        <5>1. x \in Int /\ y \in Int /\ z \in Int /\ w \in Int
          BY <2>3
        <5> HIDE DEF x, y, z, w
        <5>2. (x - y + z) + w = (x + w) - y + z
          BY <5>1
        <5> QED
          BY <5>2 DEF x, y, z, w
      <4> QED
        BY <3>1, <3>3, <4>1, <4>2, Zenon
    <3> QED
      BY <3>2, <3>3
  <2> QED
    BY <2>4, <2>5
<1>5. 0 .. n \subseteq S
  <2> HIDE DEF S
  <2> QED
    BY <1>3, <1>4, KeptAlong
<1> QED
  BY <1>1, <1>2, <1>5

(* One more number.                                                          *)
LEMMA SumAppends ==
  ASSUME NEW n \in Nat, NEW f \in [1 .. n -> Int], NEW g \in [1 .. n + 1 -> Int],
         \A i \in 1 .. n : g[i] = f[i]
  PROVE  SumOf(g) = SumOf(f) + g[n + 1]
<1>1. PICK a \in [0 .. n -> Int] : /\ a[0] = 0 /\ SumOf(f) = a[n]
                                  /\ \A i \in 1 .. n : a[i] = a[i - 1] + f[i]
  BY SumExists
<1>2. PICK b \in [0 .. n + 1 -> Int] : /\ b[0] = 0 /\ SumOf(g) = b[n + 1]
                                      /\ \A i \in 1 .. n + 1 : b[i] = b[i - 1] + g[i]
  <2>1. n + 1 \in Nat
    OBVIOUS
  <2> QED
    BY <2>1, SumExists
<1> DEFINE S == {i \in 0 .. n : b[i] = a[i]}
<1>3. 0 \in S
  BY <1>1, <1>2
<1>4. ASSUME NEW i \in 0 .. n - 1, i \in S PROVE i + 1 \in S
  <2>1. i + 1 \in 1 .. n /\ i + 1 \in 1 .. n + 1 /\ (i + 1) - 1 = i
    OBVIOUS
  <2> QED
    BY <1>1, <1>2, <1>4, <2>1
<1>5. 0 .. n \subseteq S
  <2> HIDE DEF S
  <2> QED
    BY <1>3, <1>4, KeptAlong
<1>6. b[n] = a[n] /\ b[n + 1] = b[n] + g[n + 1]
  <2>1. n + 1 \in 1 .. n + 1 /\ (n + 1) - 1 = n /\ n \in 0 .. n
    OBVIOUS
  <2> QED
    BY <1>2, <1>5, <2>1
<1> QED
  BY <1>1, <1>2, <1>6

(* One list after the other.                                                 *)
LEMMA SumConcatenates ==
  ASSUME NEW m \in Nat, NEW n \in Nat, NEW f \in [1 .. m -> Int], NEW g \in [1 .. n -> Int],
         NEW h \in [1 .. m + n -> Int], \A i \in 1 .. m : h[i] = f[i],
         \A i \in 1 .. n : h[m + i] = g[i]
  PROVE  SumOf(h) = SumOf(f) + SumOf(g)
<1>1. PICK a \in [0 .. m -> Int] : /\ a[0] = 0 /\ SumOf(f) = a[m]
                                  /\ \A i \in 1 .. m : a[i] = a[i - 1] + f[i]
  BY SumExists
<1>2. PICK b \in [0 .. n -> Int] : /\ b[0] = 0 /\ SumOf(g) = b[n]
                                  /\ \A i \in 1 .. n : b[i] = b[i - 1] + g[i]
  BY SumExists
<1>0. m + n \in Nat
  OBVIOUS
<1>3. PICK c \in [0 .. m + n -> Int] :
          /\ c[0] = 0 /\ SumOf(h) = c[m + n]
          /\ \A i \in 1 .. m + n : c[i] = c[i - 1] + h[i]
  BY <1>0, SumExists
<1> DEFINE S == {i \in 0 .. m : c[i] = a[i]}
           U == {i \in 0 .. n : c[m + i] = a[m] + b[i]}
<1>4. 0 \in S
  BY <1>1, <1>3
<1>5. ASSUME NEW i \in 0 .. m - 1, i \in S PROVE i + 1 \in S
  <2>1. i + 1 \in 1 .. m /\ i + 1 \in 1 .. m + n /\ (i + 1) - 1 = i
    OBVIOUS
  <2> QED
    BY <1>1, <1>3, <1>5, <2>1
<1>6. 0 .. m \subseteq S
  <2> HIDE DEF S
  <2> QED
    BY <1>4, <1>5, KeptAlong
<1>7. 0 \in U
  <2>1. m \in 0 .. m /\ m + 0 = m /\ a[m] \in Int
    OBVIOUS
  <2> QED
    BY <1>2, <1>6, <2>1
<1>8. ASSUME NEW i \in 0 .. n - 1, i \in U PROVE i + 1 \in U
  <2>1. i + 1 \in 1 .. n /\ m + (i + 1) \in 1 .. m + n /\ (i + 1) - 1 = i
        /\ (m + (i + 1)) - 1 = m + i
    OBVIOUS
  <2>2. c[m + (i + 1)] = c[m + i] + h[m + (i + 1)]
    BY <1>3, <2>1
  <2>3. h[m + (i + 1)] = g[i + 1] /\ b[i + 1] = b[i] + g[i + 1]
    BY <1>2, <2>1
  <2>4. a[m] \in Int /\ b[i] \in Int /\ g[i + 1] \in Int
    BY <2>1
  <2>5. c[m + i] = a[m] + b[i]
    BY <1>8
  <2>6. c[m + (i + 1)] = a[m] + b[i + 1]
    <3>1. (a[m] + b[i]) + g[i + 1] = a[m] + (b[i] + g[i + 1])
      BY <2>4, Regrouped, Zenon
    <3> QED
      BY <2>2, <2>3, <2>5, <3>1, Zenon
  <2> QED
    BY <2>1, <2>6
<1>9. 0 .. n \subseteq U
  <2> HIDE DEF U
  <2> QED
    BY <1>7, <1>8, KeptAlong
<1> QED
  BY <1>1, <1>2, <1>3, <1>9

LEMMA SumIsNat ==
  ASSUME NEW n \in Nat, NEW f \in [1 .. n -> Nat]
  PROVE  SumOf(f) \in Nat
<1>0. f \in [1 .. n -> Int]
  OBVIOUS
<1>1. PICK a \in [0 .. n -> Int] : /\ a[0] = 0 /\ SumOf(f) = a[n]
                                  /\ \A i \in 1 .. n : a[i] = a[i - 1] + f[i]
  BY <1>0, SumExists
<1> DEFINE S == {i \in 0 .. n : a[i] \in Nat}
<1>2. 0 \in S
  BY <1>1
<1>3. ASSUME NEW i \in 0 .. n - 1, i \in S PROVE i + 1 \in S
  <2>1. i + 1 \in 1 .. n /\ (i + 1) - 1 = i
    OBVIOUS
  <2> QED
    BY <1>1, <1>3, <2>1
<1>4. 0 .. n \subseteq S
  <2> HIDE DEF S
  <2> QED
    BY <1>2, <1>3, KeptAlong
<1> QED
  BY <1>1, <1>4

LEMMA SumOfNone == SumOf(<<>>) = 0
<1>1. <<>> \in [1 .. 0 -> Int]
  OBVIOUS
<1>2. PICK total \in [0 .. 0 -> Int] : total[0] = 0 /\ SumOf(<<>>) = total[0]
  BY <1>1, SumExists
<1> QED
  BY <1>2

LEMMA SumOfZeros ==
  ASSUME NEW n \in Nat, NEW f \in [1 .. n -> {0}]
  PROVE  SumOf(f) = 0
<1>0. f \in [1 .. n -> Int]
  OBVIOUS
<1>1. PICK a \in [0 .. n -> Int] : /\ a[0] = 0 /\ SumOf(f) = a[n]
                                  /\ \A i \in 1 .. n : a[i] = a[i - 1] + f[i]
  BY <1>0, SumExists
<1> DEFINE S == {i \in 0 .. n : a[i] = 0}
<1>2. 0 \in S
  BY <1>1
<1>3. ASSUME NEW i \in 0 .. n - 1, i \in S PROVE i + 1 \in S
  <2>1. i + 1 \in 1 .. n /\ (i + 1) - 1 = i /\ f[i + 1] = 0
    OBVIOUS
  <2> QED
    BY <1>1, <1>3, <2>1
<1>4. 0 .. n \subseteq S
  <2> HIDE DEF S
  <2> QED
    BY <1>2, <1>3, KeptAlong
<1> QED
  BY <1>1, <1>4

-----------------------------------------------------------------------------
(* Lines.                                                                    *)

Figures == Nat \union {Unknown}
Told ==
    [status : {"downloading", "finished", "other"}, completed : Figures, exact : Figures,
     estimate : Figures, speed : Figures, eta : Figures]
Pieces ==
    [size : Nat, ends : BOOLEAN, holds : {"report", "start", "rest", "noise", "bad"},
     report : Told]
Lines == Seq(Pieces) \ {<<>>}
Protocols ==
    [pending : Seq(Pieces), observed : Nat,
     invalid : {"none", "count", "length", "encoding"}, lines : Seq(Lines)]

LEMMA SizesAre ==
  ASSUME NEW pieces \in Seq(Pieces)
  PROVE  LineSize(pieces) \in Nat /\ BufferSize(pieces) \in Nat
<1>1. Len(pieces) \in Nat /\ \A i \in 1 .. Len(pieces) : pieces[i] \in Pieces
  OBVIOUS
<1>2. [i \in 1 .. Len(pieces) |-> pieces[i].size] \in [1 .. Len(pieces) -> Nat]
  BY <1>1 DEF Pieces
<1>3. [i \in 1 .. Len(pieces) |-> pieces[i].size + (IF pieces[i].ends THEN 1 ELSE 0)]
        \in [1 .. Len(pieces) -> Nat]
  BY <1>1 DEF Pieces
<1> QED
  BY <1>1, <1>2, <1>3, SumIsNat DEF LineSize, BufferSize

LEMMA TakePieceIs ==
  ASSUME NEW protocol \in Protocols, NEW piece \in Pieces
  PROVE  TakePiece(protocol, piece) \in Protocols
<1> DEFINE line == Append(protocol.pending, piece)
<1>1. protocol.pending \in Seq(Pieces) /\ protocol.lines \in Seq(Lines)
  BY DEF Protocols
<1>2. line \in Seq(Pieces) /\ line # <<>>
  BY <1>1, AppendIs
<1>3. line \in Lines
  BY <1>2 DEF Lines
<1>4. Append(protocol.lines, line) \in Seq(Lines)
  BY <1>1, <1>3, AppendIs
<1>5. <<>> \in Seq(Pieces)
  OBVIOUS
<1> DEFINE more == Append(protocol.lines, line)
<1>6. Spoiled(protocol, "count") \in Protocols /\ Spoiled(protocol, "length") \in Protocols
      /\ Spoiled(protocol, "encoding") \in Protocols
  BY <1>5 DEF Protocols, Spoiled
<1>7. [protocol EXCEPT !.pending = line] \in Protocols
  <2> HIDE DEF line
  <2> QED
    BY <1>2 DEF Protocols
<1>8. [protocol EXCEPT !.pending = <<>>, !.observed = @ + 1, !.lines = Append(@, line)]
        = [protocol EXCEPT !.pending = <<>>, !.observed = @ + 1, !.lines = more]
  BY DEF Protocols
<1>9. [protocol EXCEPT !.pending = <<>>, !.observed = @ + 1, !.lines = more] \in Protocols
  <2>1. more \in Seq(Lines) /\ protocol.observed + 1 \in Nat
    BY <1>4 DEF Protocols
  <2> HIDE DEF more
  <2> QED
    BY <1>5, <2>1 DEF Protocols
<1> HIDE DEF line, more
<1> QED
  BY <1>6, <1>7, <1>8, <1>9 DEF TakePiece, line

LEMMA TakenPiecesAre ==
  ASSUME NEW protocol \in Protocols, NEW read \in Seq(Pieces)
  PROVE  LET taken == TakenPieces(protocol, read)
         IN  /\ taken \in [0 .. Len(read) -> Protocols] /\ taken[0] = protocol
             /\ \A n \in 1 .. Len(read) : taken[n] = TakePiece(taken[n - 1], read[n])
<1> DEFINE N == Len(read)
           step == [n \in 1 .. N |-> [p \in Protocols |-> TakePiece(p, read[n])]]
           Step(g, n) == IF n = 0 THEN protocol ELSE TakePiece(g[n - 1], read[n])
           taken == TakenPieces(protocol, read)
<1>1. N \in Nat /\ \A n \in 1 .. N : read[n] \in Pieces
  OBVIOUS
<1> HIDE DEF N
<1>2. Steps(Protocols, protocol, N, step)
  BY <1>1, TakePieceIs DEF Steps
<1>3. \A n \in 1 .. N : \A p \in Protocols : step[n][p] = TakePiece(p, read[n])
  OBVIOUS
<1> HIDE DEF step
<1>4. PICK f : Repeats(f, Protocols, protocol, N, step)
  BY <1>2, RecursionExists, Zenon
<1>5. f \in [0 .. N -> Protocols] /\ f[0] = protocol /\ \A n \in 1 .. N : f[n] = step[n][f[n - 1]]
  BY <1>4 DEF Repeats
<1>6. \A n \in 0 .. N : f[n] = Step(f, n)
  <2>1. \A n \in 1 .. N : n - 1 \in 0 .. N
    BY <1>1
  <2>2. \A n \in 1 .. N : f[n - 1] \in Protocols
    BY <1>5, <2>1
  <2>3. \A n \in 1 .. N : f[n] = TakePiece(f[n - 1], read[n])
    BY <1>3, <1>5, <2>2, Zenon
  <2>4. \A n \in 0 .. N : n = 0 \/ n \in 1 .. N
    BY <1>1
  <2> QED
    BY <1>5, <2>3, <2>4, Zenon
<1>7. f = [n \in 0 .. N |-> Step(f, n)]
  <2> HIDE DEF Step
  <2> QED
    BY <1>5, <1>6
<1>8. taken = CHOOSE g : g = [n \in 0 .. N |-> Step(g, n)]
  BY Zenon DEF TakenPieces, N
<1>9. taken = [n \in 0 .. N |-> Step(taken, n)]
  <2> HIDE DEF Step, taken
  <2> QED
    BY <1>7, <1>8
<1> HIDE DEF taken
<1>10. \A n \in 0 .. N : taken[n] = Step(taken, n)
  <2> HIDE DEF Step
  <2> QED
    BY <1>9, Zenon
<1>11. taken = [n \in 0 .. N |-> taken[n]]
  <2> HIDE DEF Step
  <2> QED
    BY <1>9, <1>10
<1>12. taken[0] = protocol /\ \A n \in 1 .. N : taken[n] = TakePiece(taken[n - 1], read[n])
  <2>1. 0 \in 0 .. N /\ \A n \in 1 .. N : n \in 0 .. N /\ n # 0
    BY <1>1
  <2> QED
    BY <1>10, <2>1, Zenon
<1>13. taken = [n \in 0 .. N |-> IF n = 0 THEN protocol ELSE taken[n]]
  <2>1. \A n \in 0 .. N : taken[n] = IF n = 0 THEN protocol ELSE taken[n]
    BY <1>12, Zenon
  <2> QED
    BY <1>11, <2>1
<1>14. \A n \in 1 .. N : taken[n - 1] \in Protocols => taken[n] = step[n][taken[n - 1]]
  BY <1>3, <1>12, Zenon
<1>15. Repeats(taken, Protocols, protocol, N, step)
  BY <1>2, <1>13, <1>14, RecursionIs, Zenon
<1> QED
  BY <1>12, <1>15 DEF taken, N, Repeats

(* The beginning of the line a piece belongs to.                             *)
StartsAt(pieces, i, s) ==
    /\ s \in 1 .. i /\ (s = 1 \/ pieces[s - 1].ends)
    /\ \A j \in s .. i - 1 : ~pieces[j].ends

LEMMA LineHasStart ==
  ASSUME NEW pieces, NEW n \in Nat
  PROVE  \A i \in 1 .. n : \E s : StartsAt(pieces, i, s)
<1> DEFINE S == {i \in 0 .. n : i = 0 \/ \E s : StartsAt(pieces, i, s)}
<1>1. 0 \in S
  OBVIOUS
<1>2. ASSUME NEW i \in 0 .. n - 1, i \in S PROVE i + 1 \in S
  <2>0. i + 1 \in 0 .. n
    OBVIOUS
  <2>1. CASE i = 0 \/ pieces[i].ends
    <3>1. StartsAt(pieces, i + 1, i + 1)
      BY <2>1 DEF StartsAt
    <3> QED
      BY <2>0, <3>1
  <2>2. CASE i # 0 /\ ~pieces[i].ends
    <3>1. PICK s : StartsAt(pieces, i, s)
      BY <1>2, <2>2
    <3>2. StartsAt(pieces, i + 1, s)
      <4>1. s \in 1 .. i /\ s \in 1 .. i + 1 /\ i + 1 - 1 = i
        BY <3>1 DEF StartsAt
      <4>2. \A j \in s .. i : j = i \/ j \in s .. i - 1
        BY <4>1
      <4> QED
        BY <2>2, <3>1, <4>1, <4>2 DEF StartsAt
    <3> QED
      BY <2>0, <3>2
  <2> QED
    BY <2>1, <2>2
<1>3. 0 .. n \subseteq S
  <2> HIDE DEF S
  <2> QED
    BY <1>1, <1>2, KeptAlong
<1>4. \A i \in 1 .. n : i \in 0 .. n /\ i # 0
  OBVIOUS
<1> QED
  BY <1>3, <1>4

LEMMA LineHasOneStart ==
  ASSUME NEW pieces, NEW i \in Nat, NEW s, NEW t, StartsAt(pieces, i, s), StartsAt(pieces, i, t)
  PROVE  s = t
<1>1. s \in 1 .. i /\ t \in 1 .. i /\ s \in Nat /\ t \in Nat
  BY DEF StartsAt
<1>2. CASE s < t
  <2>1. t - 1 \in s .. i - 1 /\ t # 1
    BY <1>1, <1>2
  <2> QED
    BY <2>1 DEF StartsAt
<1>3. CASE t < s
  <2>1. s - 1 \in t .. i - 1 /\ s # 1
    BY <1>1, <1>3
  <2> QED
    BY <2>1 DEF StartsAt
<1> QED
  BY <1>1, <1>2, <1>3

LEMMA LineStartIs ==
  ASSUME NEW pieces, NEW i \in Nat \ {0}
  PROVE  /\ StartsAt(pieces, i, LineStart(pieces, i))
         /\ \A s : StartsAt(pieces, i, s) => s = LineStart(pieces, i)
<1>1. \E s \in 1 .. i : StartsAt(pieces, i, s)
  BY LineHasStart DEF StartsAt
<1>2. LineStart(pieces, i) = CHOOSE s \in 1 .. i : StartsAt(pieces, i, s)
  BY DEF LineStart, StartsAt
<1>3. StartsAt(pieces, i, LineStart(pieces, i))
  BY <1>1, <1>2
<1> QED
  BY <1>3, LineHasOneStart

(* A line is made of pieces, and only its last one ends it.                  *)
LEMMA LineToIs ==
  ASSUME NEW pieces \in Seq(Pieces), NEW i \in 1 .. Len(pieces)
  PROVE  /\ LineTo(pieces, i) \in Lines
         /\ \A k \in 1 .. Len(LineTo(pieces, i)) :
               \E j \in 1 .. i : LineTo(pieces, i)[k] = pieces[j]
         /\ \A k \in 1 .. Len(LineTo(pieces, i)) - 1 : ~LineTo(pieces, i)[k].ends
<1> DEFINE s == LineStart(pieces, i)
           line == SubSeq(pieces, s, i)
<1>1. i \in Nat \ {0} /\ i \in Int /\ Len(pieces) \in Nat
  OBVIOUS
<1>2. StartsAt(pieces, i, s)
  BY <1>1, LineStartIs
<1>3. s \in 1 .. i /\ s \in Int
  BY <1>2 DEF StartsAt
<1> HIDE DEF s
<1>4. \A j \in s .. i : j \in 1 .. i /\ pieces[j] \in Pieces
  BY <1>1, <1>3
<1>5. /\ line \in Seq(Pieces) /\ Len(line) = i - s + 1
      /\ \A k \in 1 .. i - s + 1 : line[k] = pieces[s + k - 1]
  BY <1>1, <1>3, <1>4, SubSeqProperties
<1> HIDE DEF line
<1>6. line # <<>>
  BY <1>3, <1>5
<1>7. \A k \in 1 .. i - s + 1 : s + k - 1 \in 1 .. i
  BY <1>3
<1>8. ASSUME NEW k \in 1 .. Len(line) - 1 PROVE ~line[k].ends
  <2>1. k \in 1 .. i - s + 1 /\ s + k - 1 \in s .. i - 1
    BY <1>3, <1>5
  <2>2. line[k] = pieces[s + k - 1]
    BY <1>5, <2>1
  <2>3. ~pieces[s + k - 1].ends
    BY <1>2, <2>1 DEF StartsAt
  <2> QED
    BY <2>2, <2>3
<1>9. LineTo(pieces, i) = line
  BY DEF LineTo, line, s
<1> QED
  BY <1>5, <1>6, <1>7, <1>8, <1>9 DEF Lines

(* It depends on no piece that follows.                                      *)
LEMMA LineToSame ==
  ASSUME NEW p \in Seq(Pieces), NEW q \in Seq(Pieces), NEW i \in 1 .. Len(p), i <= Len(q),
         \A j \in 1 .. i : q[j] = p[j]
  PROVE  LineTo(q, i) = LineTo(p, i)
<1> DEFINE s == LineStart(p, i)
<1>1. i \in Nat \ {0} /\ i \in Int /\ Len(p) \in Nat /\ Len(q) \in Nat /\ i \in 1 .. Len(q)
  OBVIOUS
<1>2. StartsAt(p, i, s)
  BY <1>1, LineStartIs
<1>3. s \in 1 .. i /\ s \in Int
  BY <1>2 DEF StartsAt
<1> HIDE DEF s
<1>4. StartsAt(q, i, s)
  <2>1. s # 1 => s - 1 \in 1 .. i
    BY <1>3
  <2>2. \A j \in s .. i - 1 : j \in 1 .. i
    BY <1>3
  <2> QED
    BY <1>2, <1>3, <2>1, <2>2 DEF StartsAt
<1>5. LineStart(q, i) = s
  BY <1>1, <1>4, LineStartIs
<1> DEFINE a == SubSeq(p, s, i)
           b == SubSeq(q, s, i)
<1>6. \A j \in s .. i : j \in 1 .. i /\ p[j] \in Pieces /\ q[j] \in Pieces
  BY <1>1, <1>3
<1>7. /\ a \in Seq(Pieces) /\ Len(a) = i - s + 1
      /\ \A k \in 1 .. i - s + 1 : a[k] = p[s + k - 1]
  BY <1>1, <1>3, <1>6, SubSeqProperties
<1>8. /\ b \in Seq(Pieces) /\ Len(b) = i - s + 1
      /\ \A k \in 1 .. i - s + 1 : b[k] = q[s + k - 1]
  BY <1>1, <1>3, <1>6, SubSeqProperties
<1> HIDE DEF a, b
<1>9. \A k \in 1 .. i - s + 1 : s + k - 1 \in 1 .. i
  BY <1>3
<1>10. \A k \in 1 .. Len(a) : a[k] = b[k]
  BY <1>7, <1>8, <1>9
<1>11. a = b
  BY <1>7, <1>8, <1>10, SeqEqual
<1> QED
  BY <1>5, <1>11 DEF LineTo, a, b, s

(* The line that is not ended yet.                                           *)
Rest(pieces) ==
    IF pieces = <<>> THEN <<>>
    ELSE IF pieces[Len(pieces)].ends THEN <<>> ELSE LineTo(pieces, Len(pieces))

LEMMA RestIs ==
  ASSUME NEW pieces \in Seq(Pieces)
  PROVE  Rest(pieces) \in Seq(Pieces)
<1>1. pieces # <<>> => Len(pieces) \in 1 .. Len(pieces)
  OBVIOUS
<1>2. pieces # <<>> => LineTo(pieces, Len(pieces)) \in Seq(Pieces)
  BY <1>1, LineToIs DEF Lines
<1>3. <<>> \in Seq(Pieces)
  OBVIOUS
<1> QED
  BY <1>2, <1>3 DEF Rest

(* A piece that is added continues it.                                       *)
LEMMA LineGrows ==
  ASSUME NEW p \in Seq(Pieces), NEW piece \in Pieces
  PROVE  LineTo(Append(p, piece), Len(p) + 1) = Append(Rest(p), piece)
<1> DEFINE q == Append(p, piece)
           n == Len(p)
           s == LineStart(q, n + 1)
<1>1. /\ q \in Seq(Pieces) /\ Len(q) = n + 1 /\ q[n + 1] = piece
      /\ \A j \in 1 .. n : q[j] = p[j]
  BY AppendIs
<1>2. n \in Nat /\ n + 1 \in Nat \ {0} /\ n + 1 \in 1 .. n + 1 /\ n \in Int /\ n + 1 \in Int
  OBVIOUS
<1> HIDE DEF q
<1>3. StartsAt(q, n + 1, s)
  BY <1>2, LineStartIs
<1>4. s \in 1 .. n + 1 /\ s \in Int
  BY <1>3 DEF StartsAt
<1> DEFINE a == SubSeq(q, s, n + 1)
<1>5. LineTo(q, n + 1) = a
  BY DEF LineTo
<1> HIDE DEF s
<1>6. \A j \in s .. n + 1 : j \in 1 .. n + 1 /\ q[j] \in Pieces
  BY <1>1, <1>2, <1>4
<1>7. /\ a \in Seq(Pieces) /\ Len(a) = (n + 1) - s + 1
      /\ \A k \in 1 .. (n + 1) - s + 1 : a[k] = q[s + k - 1]
  BY <1>2, <1>4, <1>6, SubSeqProperties
<1> HIDE DEF a
<1>8. CASE p = <<>> \/ p[n].ends
  <2>1. Rest(p) = <<>>
    BY <1>8 DEF Rest
  <2>2. n # 0 => p[n].ends /\ q[n] = p[n]
    BY <1>1, <1>2, <1>8
  <2>3. s = n + 1
    <3>1. SUFFICES ASSUME s # n + 1 PROVE FALSE
      OBVIOUS
    <3>2. n \in s .. (n + 1) - 1 /\ n # 0
      BY <1>2, <1>4, <3>1
    <3> QED
      BY <1>3, <2>2, <3>2 DEF StartsAt
  <2>4. Len(a) = 1 /\ a[1] = piece
    BY <1>1, <1>2, <1>7, <2>3
  <2>5. Append(<<>>, piece) \in Seq(Pieces) /\ Len(Append(<<>>, piece)) = 1
        /\ Append(<<>>, piece)[1] = piece
    OBVIOUS
  <2>6. a = Append(<<>>, piece)
    <3> DEFINE c == Append(<<>>, piece)
    <3>1. c \in Seq(Pieces) /\ Len(c) = 1 /\ c[1] = piece
      BY <2>5
    <3> HIDE DEF c
    <3>2. a \in Seq(Pieces) /\ Len(a) = Len(c) /\ \A k \in 1 .. Len(a) : a[k] = c[k]
      <4>1. Len(a) = 1 /\ \A k \in 1 .. 1 : k = 1
        BY <2>4
      <4> QED
        BY <1>7, <2>4, <3>1, <4>1, Zenon
    <3>3. a = c
      BY <3>1, <3>2, SeqEqual
    <3> QED
      BY <3>3 DEF c
  <2> QED
    BY <1>5, <2>1, <2>6 DEF q
<1>9. CASE p # <<>> /\ ~p[n].ends
  <2> DEFINE b == LineTo(p, n)
             c == Append(b, piece)
  <2>1. n \in 1 .. n /\ n \in Nat \ {0}
    BY <1>2, <1>9
  <2>2. Rest(p) = b
    BY <1>9 DEF Rest
  <2>3. StartsAt(p, n, s)
    <3>1. s # n + 1
      BY <1>1, <1>3, <1>9, <2>1 DEF StartsAt
    <3>2. s \in 1 .. n /\ (s # 1 => s - 1 \in 1 .. n)
      BY <1>2, <1>4, <3>1
    <3>3. \A j \in s .. n - 1 : j \in 1 .. n /\ j \in s .. (n + 1) - 1
      BY <1>2, <1>4
    <3> QED
      BY <1>1, <1>3, <3>2, <3>3 DEF StartsAt
  <2>4. LineStart(p, n) = s /\ s \in 1 .. n
    BY <2>1, <2>3, LineStartIs DEF StartsAt
  <2>5. \A j \in s .. n : j \in 1 .. n /\ p[j] \in Pieces
    BY <1>2, <2>4
  <2>6. /\ b \in Seq(Pieces) /\ Len(b) = n - s + 1
        /\ \A k \in 1 .. n - s + 1 : b[k] = p[s + k - 1]
    BY <1>2, <1>4, <2>4, <2>5, SubSeqProperties DEF LineTo
  <2> HIDE DEF b
  <2>7. /\ c \in Seq(Pieces) /\ Len(c) = (n - s + 1) + 1 /\ c[(n - s + 1) + 1] = piece
        /\ \A k \in 1 .. n - s + 1 : c[k] = b[k]
    BY <2>6, AppendIs
  <2> HIDE DEF c
  <2>8. Len(c) = Len(a)
    BY <1>2, <1>4, <1>7, <2>7
  <2>9. ASSUME NEW k \in 1 .. Len(a) PROVE a[k] = c[k]
    <3>1. k \in 1 .. (n + 1) - s + 1
      BY <1>7
    <3>2. CASE k = (n + 1) - s + 1
      <4>1. s + k - 1 = n + 1 /\ k = (n - s + 1) + 1
        BY <1>2, <1>4, <3>2
      <4> QED
        BY <1>1, <1>7, <2>7, <3>1, <4>1
    <3>3. CASE k # (n + 1) - s + 1
      <4>1. k \in 1 .. n - s + 1 /\ s + k - 1 \in 1 .. n
        BY <1>2, <1>4, <3>1, <3>3
      <4> QED
        BY <1>1, <1>7, <2>6, <2>7, <3>1, <4>1
    <3> QED
      BY <3>2, <3>3
  <2>10. a = c
    BY <1>7, <2>7, <2>8, <2>9, SeqEqual
  <2> QED
    BY <1>5, <2>2, <2>10 DEF b, c, q
<1> QED
  BY <1>8, <1>9

LEMMA EndsAre ==
  ASSUME NEW pieces \in Seq(Pieces)
  PROVE  /\ Ends(pieces) \subseteq 1 .. Len(pieces) /\ IsFiniteSet(Ends(pieces))
         /\ Cardinality(Ends(pieces)) \in Nat
         /\ IsFiniteSet({i \in Ends(pieces) : IsReport(LineTo(pieces, i))})
         /\ Reported(pieces) \in Nat
<1>1. Ends(pieces) \subseteq 1 .. Len(pieces) /\ 1 \in Int /\ Len(pieces) \in Int
  BY DEF Ends
<1>2. IsFiniteSet(1 .. Len(pieces))
  BY <1>1, FS_Interval
<1>3. IsFiniteSet(Ends(pieces))
  BY <1>1, <1>2, FS_Subset
<1>4. IsFiniteSet({i \in Ends(pieces) : IsReport(LineTo(pieces, i))})
  BY <1>3, FS_Subset
<1> QED
  BY <1>1, <1>3, <1>4, FS_CardinalityType DEF Reported

(* What a piece adds to the number of lines and of reports.                  *)
LEMMA CountsGrow ==
  ASSUME NEW p \in Seq(Pieces), NEW piece \in Pieces
  PROVE  LET q == Append(p, piece)
         IN  /\ Cardinality(Ends(q)) = Cardinality(Ends(p)) + (IF piece.ends THEN 1 ELSE 0)
             /\ Reported(q) = Reported(p)
                    + (IF piece.ends /\ IsReport(LineTo(q, Len(p) + 1)) THEN 1 ELSE 0)
<1> DEFINE q == Append(p, piece)
           n == Len(p)
           A == {i \in Ends(p) : IsReport(LineTo(p, i))}
           B == {i \in Ends(q) : IsReport(LineTo(q, i))}
<1>1. /\ q \in Seq(Pieces) /\ Len(q) = n + 1 /\ q[n + 1] = piece
      /\ \A j \in 1 .. n : q[j] = p[j]
  BY AppendIs
<1>2. n \in Nat
  OBVIOUS
<1> HIDE DEF q
<1>3. \A i \in 1 .. n : LineTo(q, i) = LineTo(p, i)
  <2> TAKE i \in 1 .. n
  <2>1. i <= Len(q) /\ \A j \in 1 .. i : q[j] = p[j]
    BY <1>1, <1>2
  <2> QED
    BY <1>1, <2>1, LineToSame
<1>4. /\ IsFiniteSet(Ends(p)) /\ IsFiniteSet(A) /\ n + 1 \notin Ends(p) /\ n + 1 \notin A
      /\ Cardinality(Ends(p)) \in Nat /\ Reported(p) \in Nat
  <2>1. /\ Ends(p) \subseteq 1 .. n /\ IsFiniteSet(Ends(p)) /\ Cardinality(Ends(p)) \in Nat
        /\ Reported(p) \in Nat
    BY EndsAre, Zenon
  <2>2. IsFiniteSet(A)
    BY EndsAre, Zenon
  <2>3. n + 1 \notin Ends(p)
    BY <1>2, <2>1
  <2>4. n + 1 \notin A
    BY <2>3
  <2> QED
    BY <2>1, <2>2, <2>3, <2>4
<1>5. Ends(q) = IF piece.ends THEN Ends(p) \union {n + 1} ELSE Ends(p)
  BY <1>1, <1>2 DEF Ends, Pieces
<1>6. Reported(p) = Cardinality(A) /\ Reported(q) = Cardinality(B)
  BY DEF Reported
<1>7. Ends(p) \subseteq 1 .. n
  BY EndsAre
<1>8. B = IF piece.ends /\ IsReport(LineTo(q, n + 1)) THEN A \union {n + 1} ELSE A
  <2>1. \A i \in Ends(p) : IsReport(LineTo(q, i)) <=> IsReport(LineTo(p, i))
    BY <1>3, <1>7
  <2>2. CASE piece.ends
    <3>1. Ends(q) = Ends(p) \union {n + 1}
      BY <1>5, <2>2
    <3> QED
      BY <2>1, <2>2, <3>1, Zenon
  <2>3. CASE ~piece.ends
    <3>1. Ends(q) = Ends(p)
      BY <1>5, <2>3
    <3> QED
      BY <2>1, <2>3, <3>1, Zenon
  <2> QED
    BY <2>2, <2>3
<1> HIDE DEF A, B
<1>9. Cardinality(Ends(p) \union {n + 1}) = Cardinality(Ends(p)) + 1
  BY <1>4, FS_AddElement
<1>10. Cardinality(A \union {n + 1}) = Cardinality(A) + 1
  BY <1>4, FS_AddElement
<1>11. Cardinality(Ends(q)) = Cardinality(Ends(p)) + (IF piece.ends THEN 1 ELSE 0)
  BY <1>4, <1>5, <1>9
<1>12. Cardinality(A) \in Nat
  BY <1>4, <1>6
<1>13. Reported(q) = Reported(p)
                    + (IF piece.ends /\ IsReport(LineTo(q, n + 1)) THEN 1 ELSE 0)
  BY <1>6, <1>8, <1>10, <1>12
<1> QED
  BY <1>11, <1>13 DEF q

(* Readable pieces whose lines fit beside as many others.                    *)
FitsBeside(pieces, others) == Readable(pieces) /\ Cardinality(Ends(pieces)) + others <= MaxLines

(* What fits was so at every moment.                                         *)
LEMMA FitsBefore ==
  ASSUME NEW p \in Seq(Pieces), NEW q \in Seq(Pieces), Len(p) <= Len(q), NEW others \in Nat,
         \A j \in 1 .. Len(p) : q[j] = p[j], FitsBeside(q, others)
  PROVE  FitsBeside(p, others)
<1>1. Len(p) \in Nat /\ Len(q) \in Nat /\ \A i \in 1 .. Len(p) : i \in 1 .. Len(q)
  OBVIOUS
<1>2. \A i \in 1 .. Len(p) : LineTo(q, i) = LineTo(p, i)
  <2> TAKE i \in 1 .. Len(p)
  <2>1. i <= Len(q) /\ \A j \in 1 .. i : q[j] = p[j]
    BY <1>1
  <2> QED
    BY <2>1, LineToSame
<1>3. Ends(p) \subseteq Ends(q)
  BY <1>1 DEF Ends
<1>4. IsFiniteSet(Ends(q)) /\ Cardinality(Ends(p)) \in Nat /\ Cardinality(Ends(q)) \in Nat
  BY EndsAre
<1>5. Cardinality(Ends(p)) <= Cardinality(Ends(q))
  BY <1>3, <1>4, FS_Subset
<1>6. Cardinality(Ends(q)) + others <= MaxLines
  BY DEF FitsBeside
<1>7. Cardinality(Ends(p)) + others <= MaxLines
  BY <1>4, <1>5, <1>6, ProgressAssumption
<1>9. Readable(q)
  BY DEF FitsBeside
<1>8. ASSUME NEW i \in 1 .. Len(p)
      PROVE  p[i].holds # "bad" /\ LineSize(LineTo(p, i)) <= MaxLine
  <2>1. q[i].holds # "bad" /\ LineSize(LineTo(q, i)) <= MaxLine
    BY <1>1, <1>9 DEF Readable
  <2> QED
    BY <1>2, <2>1
<1> QED
  BY <1>7, <1>8 DEF Readable, FitsBeside

(* The protocol has taken all the lines of the pieces, and the others that   *)
(* came from elsewhere, and holds the rest.                                  *)
Tracks(protocol, pieces, others) ==
    /\ protocol.invalid = "none" /\ protocol.pending = Rest(pieces)
    /\ protocol.observed = Cardinality(Ends(pieces)) + others
Reports(lines) == Cardinality({k \in 1 .. Len(lines) : IsReport(lines[k])})

LEMMA ReportsAre ==
  ASSUME NEW lines \in Seq(Lines)
  PROVE  /\ IsFiniteSet({k \in 1 .. Len(lines) : IsReport(lines[k])})
         /\ Reports(lines) \in Nat
<1>1. 1 \in Int /\ Len(lines) \in Int
  OBVIOUS
<1>2. IsFiniteSet(1 .. Len(lines))
  BY <1>1, FS_Interval
<1>3. IsFiniteSet({k \in 1 .. Len(lines) : IsReport(lines[k])})
  BY <1>2, FS_Subset
<1> QED
  BY <1>3, FS_CardinalityType DEF Reports

LEMMA ReportsGrow ==
  ASSUME NEW lines \in Seq(Lines), NEW line \in Lines
  PROVE  Reports(Append(lines, line)) = Reports(lines) + (IF IsReport(line) THEN 1 ELSE 0)
<1> DEFINE more == Append(lines, line)
           n == Len(lines)
           A == {k \in 1 .. n : IsReport(lines[k])}
           B == {k \in 1 .. n + 1 : IsReport(more[k])}
<1>1. /\ Len(more) = n + 1 /\ more[n + 1] = line
      /\ \A k \in 1 .. n : more[k] = lines[k]
  BY AppendIs
<1>2. n \in Nat /\ IsFiniteSet(A) /\ Cardinality(A) \in Nat
  BY ReportsAre DEF Reports
<1> HIDE DEF more
<1>3. 1 .. n + 1 = (1 .. n) \union {n + 1} /\ n + 1 \notin 1 .. n
  BY <1>2
<1>4. B = IF IsReport(line) THEN A \union {n + 1} ELSE A
  BY <1>1, <1>3, Zenon
<1>5. n + 1 \notin A
  BY <1>3
<1>6. Reports(more) = Cardinality(B) /\ Reports(lines) = Cardinality(A)
  BY <1>1 DEF Reports
<1> HIDE DEF A, B
<1>7. Cardinality(A \union {n + 1}) = Cardinality(A) + 1
  BY <1>2, <1>5, FS_AddElement
<1>8. Reports(more) = Reports(lines) + (IF IsReport(line) THEN 1 ELSE 0)
  BY <1>2, <1>4, <1>6, <1>7
<1> QED
  BY <1>8 DEF more

(* One piece more.                                                           *)
LEMMA PieceTracked ==
  ASSUME NEW p \in Seq(Pieces), NEW piece \in Pieces, NEW protocol \in Protocols,
         NEW others \in Nat, Tracks(protocol, p, others), FitsBeside(Append(p, piece), others)
  PROVE  LET q == Append(p, piece)
             r == TakePiece(protocol, piece)
         IN  Tracks(r, q, others) /\ Reports(r.lines) + Reported(p) = Reports(protocol.lines) + Reported(q)
<1> DEFINE q == Append(p, piece)
           n == Len(p)
           r == TakePiece(protocol, piece)
           line == Append(protocol.pending, piece)
<1>1. /\ q \in Seq(Pieces) /\ Len(q) = n + 1 /\ q[n + 1] = piece /\ q # <<>>
  BY AppendIs
<1>2. n \in Nat /\ n + 1 \in 1 .. Len(q)
  BY <1>1
<1>3. line = LineTo(q, n + 1)
  BY LineGrows DEF Tracks
<1>4. /\ line \in Lines
      /\ \A k \in 1 .. Len(line) : \E j \in 1 .. n + 1 : line[k] = q[j]
  <2> HIDE DEF q, line
  <2>1. /\ LineTo(q, n + 1) \in Lines
        /\ \A k \in 1 .. Len(LineTo(q, n + 1)) :
              \E j \in 1 .. n + 1 : LineTo(q, n + 1)[k] = q[j]
    BY <1>1, <1>2, LineToIs, Zenon
  <2> QED
    BY <1>3, <2>1, Zenon
<1>5. LineSize(line) <= MaxLine /\ \A j \in 1 .. n + 1 : q[j].holds # "bad"
  BY <1>1, <1>2, <1>3 DEF Readable, FitsBeside
<1>6. \A k \in DOMAIN line : line[k].holds # "bad"
  <2>1. DOMAIN line = 1 .. Len(line)
    BY <1>4 DEF Lines
  <2> QED
    BY <1>4, <1>5, <2>1, Zenon
<1>7. /\ Cardinality(Ends(q)) = Cardinality(Ends(p)) + (IF piece.ends THEN 1 ELSE 0)
      /\ Reported(q) = Reported(p)
                    + (IF piece.ends /\ IsReport(LineTo(q, n + 1)) THEN 1 ELSE 0)
      /\ Cardinality(Ends(p)) \in Nat /\ Reported(p) \in Nat
  BY CountsGrow, EndsAre
<1>8. Cardinality(Ends(q)) + others <= MaxLines
  BY DEF FitsBeside
<1>9. /\ protocol.invalid = "none" /\ protocol.observed = Cardinality(Ends(p)) + others
      /\ protocol.lines \in Seq(Lines)
  BY DEF Tracks, Protocols
<1>10. /\ Reports(protocol.lines) \in Nat
       /\ Reports(Append(protocol.lines, line))
            = Reports(protocol.lines) + (IF IsReport(line) THEN 1 ELSE 0)
  BY <1>4, <1>9, ReportsAre, ReportsGrow
<1> HIDE DEF q, line
<1>11. CASE ~piece.ends
  <2>1. r = [protocol EXCEPT !.pending = line]
    BY <1>9, <1>11 DEF TakePiece, line
  <2>2. r.invalid = "none" /\ r.pending = line /\ r.observed = protocol.observed
        /\ r.lines = protocol.lines
    BY <1>9, <2>1 DEF Protocols
  <2>3. Rest(q) = line
    BY <1>1, <1>3, <1>11 DEF Rest
  <2>4. Reported(q) = Reported(p) /\ Cardinality(Ends(q)) = Cardinality(Ends(p))
    BY <1>7, <1>11
  <2> HIDE DEF r
  <2> QED
    BY <1>9, <2>2, <2>3, <2>4 DEF Tracks, r, q
<1>12. CASE piece.ends
  <2>1. ~(protocol.observed >= MaxLines)
    BY <1>7, <1>8, <1>9, <1>12, ProgressAssumption
  <2>2. ~(LineSize(line) > MaxLine)
    <3>1. LineSize(line) \in Nat
      BY <1>4, SizesAre DEF Lines
    <3> QED
      BY <1>5, <3>1, ProgressAssumption
  <2>3. r = [protocol EXCEPT !.pending = <<>>, !.observed = @ + 1, !.lines = Append(@, line)]
    BY <1>6, <1>9, <1>12, <2>1, <2>2, Zenon DEF TakePiece, line
  <2>4. r.invalid = "none" /\ r.pending = <<>> /\ r.observed = protocol.observed + 1
        /\ r.lines = Append(protocol.lines, line)
    BY <1>9, <2>3 DEF Protocols
  <2>5. Rest(q) = <<>>
    BY <1>1, <1>12 DEF Rest
  <2> HIDE DEF r
  <2>6. Tracks(r, q, others)
    BY <1>7, <1>9, <1>12, <2>4, <2>5 DEF Tracks
  <2>7. Reports(r.lines) + Reported(p) = Reports(protocol.lines) + Reported(q)
    <3>1. IsReport(line) <=> IsReport(LineTo(q, n + 1))
      BY <1>3
    <3>2. CASE IsReport(line)
      BY <1>7, <1>10, <1>12, <2>4, <3>1, <3>2
    <3>3. CASE ~IsReport(line)
      BY <1>7, <1>10, <1>12, <2>4, <3>1, <3>3
    <3> QED
      BY <3>2, <3>3
  <2> QED
    BY <2>6, <2>7 DEF r, q
<1> QED
  BY <1>11, <1>12 DEF Pieces

(* One read more, when the buffer takes it.                                  *)
LEMMA ReadTracked ==
  ASSUME NEW p \in Seq(Pieces), NEW read \in Seq(Pieces), NEW protocol \in Protocols,
         NEW others \in Nat, Tracks(protocol, p, others), FitsBeside(p \o read, others)
  PROVE  LET r == TakenPieces(protocol, read)[Len(read)]
         IN  /\ r \in Protocols /\ Tracks(r, p \o read, others)
             /\ Reports(r.lines) + Reported(p) = Reports(protocol.lines) + Reported(p \o read)
<1> DEFINE N == Len(read)
           m == Len(p)
           full == p \o read
           P(n) == SubSeq(full, 1, m + n)
           taken == TakenPieces(protocol, read)
           Good(n) == /\ Tracks(taken[n], P(n), others)
                      /\ Reports(taken[n].lines) + Reported(p)
                           = Reports(protocol.lines) + Reported(P(n))
           S == {n \in 0 .. N : Good(n)}
<1>1. N \in Nat /\ m \in Nat /\ \A n \in 1 .. N : read[n] \in Pieces
  OBVIOUS
<1>2. /\ full \in Seq(Pieces) /\ Len(full) = m + N
      /\ \A i \in 1 .. m + N : full[i] = IF i <= m THEN p[i] ELSE read[i - m]
  BY ConcatProperties
<1>3. /\ taken \in [0 .. N -> Protocols] /\ taken[0] = protocol
      /\ \A n \in 1 .. N : taken[n] = TakePiece(taken[n - 1], read[n])
  BY TakenPiecesAre
<1> HIDE DEF N, m, full, taken
<1>4. ASSUME NEW n \in 0 .. N
      PROVE  /\ P(n) \in Seq(Pieces) /\ Len(P(n)) = m + n
             /\ \A i \in 1 .. m + n : P(n)[i] = full[i]
  <2>1. 1 \in Int /\ m + n \in Int /\ m + n >= 0 /\ (m + n) - 1 + 1 = m + n
    BY <1>1
  <2>2. \A i \in 1 .. m + n : i \in 1 .. m + N /\ 1 + i - 1 = i /\ full[i] \in Pieces
    BY <1>1, <1>2
  <2>3. /\ P(n) \in Seq(Pieces)
        /\ Len(P(n)) = IF 1 <= m + n THEN (m + n) - 1 + 1 ELSE 0
        /\ \A i \in 1 .. (m + n) - 1 + 1 : P(n)[i] = full[1 + i - 1]
    BY <2>1, <2>2, SubSeqProperties
  <2> HIDE DEF P
  <2> QED
    BY <2>1, <2>2, <2>3
<1>5. P(0) = p
  <2>1. 0 \in 0 .. N /\ m + 0 = m
    BY <1>1
  <2>2. /\ P(0) \in Seq(Pieces) /\ Len(P(0)) = m /\ \A i \in 1 .. m : P(0)[i] = full[i]
    BY <1>4, <2>1
  <2>3. \A i \in 1 .. m : full[i] = p[i]
    BY <1>1, <1>2
  <2> HIDE DEF P
  <2>4. Len(P(0)) = Len(p) /\ \A i \in 1 .. Len(P(0)) : P(0)[i] = p[i]
    BY <2>2, <2>3 DEF m
  <2> QED
    BY <2>2, <2>4, SeqEqual
<1>6. P(N) = full
  <2>1. N \in 0 .. N
    BY <1>1
  <2>2. /\ P(N) \in Seq(Pieces) /\ Len(P(N)) = Len(full)
        /\ \A i \in 1 .. Len(P(N)) : P(N)[i] = full[i]
    BY <1>2, <1>4, <2>1
  <2> HIDE DEF P
  <2> QED
    BY <1>2, <2>2, SeqEqual
<1>7. ASSUME NEW n \in 0 .. N - 1 PROVE P(n + 1) = Append(P(n), read[n + 1])
  <2>1. n \in 0 .. N /\ n + 1 \in 0 .. N /\ n + 1 \in 1 .. N /\ m + (n + 1) = (m + n) + 1
    BY <1>1
  <2> DEFINE a == P(n + 1)
             b == Append(P(n), read[n + 1])
  <2>2. /\ a \in Seq(Pieces) /\ Len(a) = (m + n) + 1 /\ \A i \in 1 .. (m + n) + 1 : a[i] = full[i]
    <3> HIDE DEF P
    <3> QED
      BY <1>4, <2>1
  <2>3. /\ P(n) \in Seq(Pieces) /\ Len(P(n)) = m + n /\ \A i \in 1 .. m + n : P(n)[i] = full[i]
    BY <1>4, <2>1
  <2>4. /\ b \in Seq(Pieces) /\ Len(b) = (m + n) + 1 /\ b[(m + n) + 1] = read[n + 1]
        /\ \A i \in 1 .. m + n : b[i] = P(n)[i]
    <3> DEFINE q == P(n)
    <3>1. q \in Seq(Pieces) /\ Len(q) = m + n /\ read[n + 1] \in Pieces
      BY <1>1, <2>1, <2>3
    <3> HIDE DEF P, q
    <3>2. /\ Append(q, read[n + 1]) \in Seq(Pieces) /\ Len(Append(q, read[n + 1])) = Len(q) + 1
          /\ Append(q, read[n + 1])[Len(q) + 1] = read[n + 1]
          /\ \A i \in 1 .. Len(q) : Append(q, read[n + 1])[i] = q[i]
      BY <3>1, AppendIs
    <3> QED
      BY <3>1, <3>2 DEF q
  <2>5. full[(m + n) + 1] = read[n + 1]
    <3> DEFINE k == (m + n) + 1
    <3>1. k \in 1 .. m + N /\ ~(k <= m) /\ k - m = n + 1
      BY <1>1, <2>1
    <3> HIDE DEF k
    <3>2. full[k] = read[k - m]
      BY <1>2, <3>1
    <3> QED
      BY <3>1, <3>2 DEF k
  <2> HIDE DEF a, b, P
  <2>6. \A i \in 1 .. (m + n) + 1 : i = (m + n) + 1 \/ i \in 1 .. m + n
    BY <1>1
  <2>7. \A i \in 1 .. Len(a) : a[i] = b[i]
    BY <2>2, <2>3, <2>4, <2>5, <2>6
  <2>8. a = b
    BY <2>2, <2>4, <2>7, SeqEqual
  <2> QED
    BY <2>8 DEF a, b
<1>8. ASSUME NEW n \in 0 .. N PROVE FitsBeside(P(n), others)
  <2> DEFINE q == P(n)
  <2>1. q \in Seq(Pieces) /\ Len(q) = m + n /\ \A i \in 1 .. m + n : q[i] = full[i]
    BY <1>4
  <2> HIDE DEF P, q
  <2>2. Len(q) <= Len(full) /\ \A i \in 1 .. Len(q) : full[i] = q[i]
    BY <1>1, <1>2, <2>1
  <2>3. FitsBeside(q, others)
    BY <1>2, <2>1, <2>2, FitsBefore DEF full
  <2> QED
    BY <2>3 DEF q
<1>9. 0 \in S
  <2> HIDE DEF P
  <2>1. Tracks(taken[0], P(0), others) /\ taken[0].lines = protocol.lines
    BY <1>3, <1>5
  <2> QED
    BY <1>1, <1>3, <1>5, <2>1
<1>10. ASSUME NEW n \in 0 .. N - 1, n \in S PROVE n + 1 \in S
  <2>1. n \in 0 .. N /\ n + 1 \in 0 .. N /\ n + 1 \in 1 .. N /\ (n + 1) - 1 = n
    BY <1>1
  <2> DEFINE a == P(n)
             b == P(n + 1)
             t == taken[n]
             r == taken[n + 1]
  <2>2. a \in Seq(Pieces) /\ read[n + 1] \in Pieces /\ t \in Protocols
    BY <1>1, <1>3, <1>4, <2>1
  <2>3. b = Append(a, read[n + 1]) /\ FitsBeside(b, others)
    BY <1>7, <1>8, <2>1
  <2>4. r = TakePiece(t, read[n + 1])
    BY <1>3, <2>1
  <2>5. Tracks(t, a, others) /\ Reports(t.lines) + Reported(p) = Reports(protocol.lines) + Reported(a)
    BY <1>10
  <2> HIDE DEF P, a, b, t, r
  <2>6. Tracks(r, b, others) /\ Reports(r.lines) + Reported(a) = Reports(t.lines) + Reported(b)
    BY <2>2, <2>3, <2>4, <2>5, PieceTracked
  <2>7. b \in Seq(Pieces) /\ r \in Protocols
    BY <2>2, <2>3, <2>4, AppendIs, TakePieceIs
  <2>8. /\ Reported(p) \in Nat /\ Reported(a) \in Nat /\ Reported(b) \in Nat
        /\ Reports(t.lines) \in Nat /\ Reports(r.lines) \in Nat /\ Reports(protocol.lines) \in Nat
    BY <2>2, <2>7, EndsAre, ReportsAre DEF Protocols
  <2>9. Reports(r.lines) + Reported(p) = Reports(protocol.lines) + Reported(b)
    <3> DEFINE x == Reports(r.lines)
               y == Reports(t.lines)
               z == Reports(protocol.lines)
               u == Reported(p)
               v == Reported(a)
               w == Reported(b)
    <3>1. /\ x \in Nat /\ y \in Nat /\ z \in Nat /\ u \in Nat /\ v \in Nat /\ w \in Nat
          /\ y + u = z + v /\ x + v = y + w
      BY <2>5, <2>6, <2>8
    <3> HIDE DEF x, y, z, u, v, w
    <3>2. x + u = z + w
      BY <3>1
    <3> QED
      BY <3>2 DEF x, z, u, w
  <2> QED
    BY <2>1, <2>6, <2>9 DEF r, b
<1>11. 0 .. N \subseteq S
  <2> HIDE DEF S
  <2> QED
    BY <1>1, <1>9, <1>10, KeptAlong
<1>12. N \in S
  <2> HIDE DEF S
  <2> QED
    BY <1>1, <1>11
<1>13. Good(N) /\ taken[N] \in Protocols
  <2> HIDE DEF Good
  <2> QED
    BY <1>1, <1>3, <1>12
<1> HIDE DEF P
<1>14. Tracks(taken[N], full, others)
       /\ Reports(taken[N].lines) + Reported(p) = Reports(protocol.lines) + Reported(full)
  BY <1>6, <1>13
<1> QED
  BY <1>13, <1>14 DEF full, taken, N

(* What the buffer holds when a read has come.                               *)
LEMMA BufferIs ==
  ASSUME NEW p \in Seq(Pieces), NEW read \in Seq(Pieces)
  PROVE  BufferSize(Rest(p) \o read) = LineSize(Rest(p)) + BufferSize(read)
<1> DEFINE a == Rest(p)
           c == a \o read
           m == Len(a)
           n == Len(read)
           f == [i \in 1 .. m |-> a[i].size]
           g == [i \in 1 .. n |-> read[i].size + (IF read[i].ends THEN 1 ELSE 0)]
           h == [i \in 1 .. m + n |-> c[i].size + (IF c[i].ends THEN 1 ELSE 0)]
<1>1. a \in Seq(Pieces)
  BY RestIs
<1>2. \A k \in 1 .. m : ~a[k].ends
  <2>1. CASE p = <<>> \/ p[Len(p)].ends
    <3>1. a = <<>>
      BY <2>1 DEF Rest
    <3> QED
      BY <3>1
  <2>2. CASE p # <<>> /\ ~p[Len(p)].ends
    <3>1. a = LineTo(p, Len(p)) /\ Len(p) \in 1 .. Len(p) /\ Len(p) \in Nat \ {0}
      BY <2>2 DEF Rest
    <3> HIDE DEF a
    <3>2. \A k \in 1 .. m - 1 : ~a[k].ends
      BY <3>1, LineToIs
    <3>3. a = Append(Rest(SubSeq(p, 1, Len(p) - 1)), p[Len(p)])
      <4> DEFINE q == SubSeq(p, 1, Len(p) - 1)
      <4>1. q \in Seq(Pieces) /\ Len(q) = Len(p) - 1 /\ \A i \in 1 .. Len(p) - 1 : q[i] = p[i]
        <5>1. Len(p) - 1 \in Int /\ 1 \in Int /\ Len(p) \in Nat
          BY <3>1
        <5>2. \A i \in 1 .. Len(p) - 1 : i \in 1 .. Len(p) /\ p[i] \in Pieces /\ 1 + i - 1 = i
          BY <5>1
        <5>3. /\ q \in Seq(Pieces)
              /\ Len(q) = IF 1 <= Len(p) - 1 THEN (Len(p) - 1) - 1 + 1 ELSE 0
              /\ \A i \in 1 .. (Len(p) - 1) - 1 + 1 : q[i] = p[1 + i - 1]
          BY <5>1, <5>2, SubSeqProperties
        <5>4. (Len(p) - 1) - 1 + 1 = Len(p) - 1 /\ (1 <= Len(p) - 1 \/ Len(p) - 1 = 0)
          <6> DEFINE k == Len(p)
          <6>1. k \in Nat \ {0}
            BY <3>1
          <6> HIDE DEF k
          <6>2. (k - 1) - 1 + 1 = k - 1 /\ (1 <= k - 1 \/ k - 1 = 0)
            BY <6>1
          <6> QED
            BY <6>2 DEF k
        <5> HIDE DEF q
        <5>5. Len(q) = Len(p) - 1
          <6>1. CASE 1 <= Len(p) - 1
            BY <5>3, <5>4, <6>1, Zenon
          <6>2. CASE ~(1 <= Len(p) - 1)
            BY <5>3, <5>4, <6>2, Zenon
          <6> QED
            BY <6>1, <6>2
        <5> QED
          BY <5>2, <5>3, <5>4, <5>5, Zenon
      <4> HIDE DEF q
      <4>2. p[Len(p)] \in Pieces /\ Len(q) + 1 = Len(p)
        BY <3>1, <4>1
      <4> DEFINE u == Append(q, p[Len(p)])
      <4>3. u \in Seq(Pieces) /\ Len(u) = Len(p) /\ u[Len(p)] = p[Len(p)]
            /\ \A i \in 1 .. Len(q) : u[i] = q[i]
        BY <4>1, <4>2, AppendIs
      <4> HIDE DEF u
      <4>4. \A i \in 1 .. Len(u) : u[i] = p[i]
        <5>1. \A i \in 1 .. Len(p) : i = Len(p) \/ i \in 1 .. Len(q)
          BY <3>1, <4>1
        <5> QED
          BY <4>1, <4>3, <5>1
      <4>5. u = p
        BY <4>3, <4>4, SeqEqual
      <4>6. LineTo(u, Len(q) + 1) = Append(Rest(q), p[Len(p)])
        BY <4>1, <4>2, LineGrows DEF u
      <4> QED
        BY <3>1, <4>2, <4>5, <4>6 DEF q
    <3>4. a[m] = p[Len(p)]
      <4> DEFINE b == Rest(SubSeq(p, 1, Len(p) - 1))
      <4>1. SubSeq(p, 1, Len(p) - 1) \in Seq(Pieces) /\ p[Len(p)] \in Pieces
        BY <3>1
      <4>2. b \in Seq(Pieces)
        BY <4>1, RestIs
      <4> HIDE DEF b
      <4>3. Len(Append(b, p[Len(p)])) = Len(b) + 1 /\ Append(b, p[Len(p)])[Len(b) + 1] = p[Len(p)]
        BY <4>1, <4>2, AppendIs
      <4> QED
        BY <3>3, <4>3 DEF b
    <3>5. \A k \in 1 .. m : k = m \/ k \in 1 .. m - 1
      BY <1>1
    <3> QED
      BY <2>2, <3>2, <3>4, <3>5
  <2> QED
    BY <2>1, <2>2
<1> HIDE DEF a
<1>3. m \in Nat /\ n \in Nat /\ m + n \in Nat
  BY <1>1
<1>4. /\ c \in Seq(Pieces) /\ Len(c) = m + n
      /\ \A i \in 1 .. m + n : c[i] = IF i <= m THEN a[i] ELSE read[i - m]
  BY <1>1, ConcatProperties
<1> HIDE DEF c
<1>5. f \in [1 .. m -> Int] /\ g \in [1 .. n -> Int] /\ h \in [1 .. m + n -> Int]
  <2>1. (\A i \in 1 .. m : a[i] \in Pieces) /\ \A i \in 1 .. n : read[i] \in Pieces
    BY <1>1
  <2>2. \A i \in 1 .. m + n : c[i] \in Pieces
    BY <1>4
  <2> QED
    BY <2>1, <2>2 DEF Pieces
<1>6. \A i \in 1 .. m : h[i] = f[i]
  <2> TAKE i \in 1 .. m
  <2>1. i \in 1 .. m + n /\ i <= m /\ a[i] \in Pieces
    BY <1>1, <1>3
  <2>2. c[i] = a[i] /\ ~a[i].ends
    BY <1>2, <1>4, <2>1
  <2> QED
    BY <2>1, <2>2 DEF Pieces
<1>7. \A i \in 1 .. n : h[m + i] = g[i]
  <2> TAKE i \in 1 .. n
  <2>1. m + i \in 1 .. m + n /\ ~(m + i <= m) /\ (m + i) - m = i
    BY <1>3
  <2>2. c[m + i] = read[i]
    BY <1>4, <2>1
  <2> QED
    BY <2>1, <2>2
<1>8. BufferSize(c) = SumOf(h) /\ LineSize(a) = SumOf(f) /\ BufferSize(read) = SumOf(g)
  <2>1. BufferSize(c) = SumOf(h)
    BY <1>4 DEF BufferSize
  <2>2. LineSize(a) = SumOf(f)
    BY DEF LineSize
  <2>3. BufferSize(read) = SumOf(g)
    BY DEF BufferSize
  <2> QED
    BY <2>1, <2>2, <2>3
<1> HIDE DEF f, g, h, m, n
<1>9. SumOf(h) = SumOf(f) + SumOf(g)
  BY <1>3, <1>5, <1>6, <1>7, SumConcatenates, Zenon
<1> QED
  BY <1>8, <1>9 DEF c, a

-----------------------------------------------------------------------------
(* Percentages.                                                              *)

LEMMA TimesMonotone ==
  ASSUME NEW n \in Nat, NEW a \in Int, NEW b \in Int, a <= b
  PROVE  n * a <= n * b /\ n * a \in Int /\ n * b \in Int
<1>1. PICK d \in Nat : b = a + d
  <2>1. b - a \in Nat /\ b = a + (b - a)
    OBVIOUS
  <2> QED
    BY <2>1
<1>2. n * b = n * a + n * d /\ n * d \in Nat /\ n * a \in Int
  BY <1>1
<1> QED
  BY <1>2

LEMMA DivIs ==
  ASSUME NEW a \in Int, NEW n \in Nat \ {0}
  PROVE  a \div n \in Int /\ n * (a \div n) <= a /\ a < n * (a \div n) + n /\ n * (a \div n) \in Int
  OBVIOUS

LEMMA DivMonotone ==
  ASSUME NEW a \in Int, NEW b \in Int, NEW n \in Nat \ {0}, a <= b
  PROVE  a \div n <= b \div n
<1> DEFINE x == a \div n
           y == b \div n
<1>1. x \in Int /\ y \in Int /\ n * x <= a /\ b < n * y + n /\ n * x \in Int /\ n * y \in Int
  BY DivIs
<1> HIDE DEF x, y
<1>2. SUFFICES ASSUME y + 1 <= x PROVE FALSE
  BY <1>1 DEF x, y
<1>3. n * (y + 1) <= n * x
  BY <1>1, <1>2, TimesMonotone
<1>4. n * (y + 1) = n * y + n
  BY <1>1
<1> QED
  BY <1>1, <1>3, <1>4

(* A quotient with a positive number that is at least a number.              *)
LEMMA DivBound ==
  ASSUME NEW a \in Int, NEW n \in Nat \ {0}, NEW k \in Int
  PROVE  (k <= a \div n <=> n * k <= a) /\ n * k \in Int
<1> DEFINE x == a \div n
<1>1. x \in Int /\ n * x <= a /\ a < n * x + n /\ n * x \in Int /\ n * k \in Int
  BY DivIs
<1> HIDE DEF x
<1>2. k <= x => n * k <= a
  BY <1>1, TimesMonotone
<1>3. ASSUME n * k <= a, x + 1 <= k PROVE FALSE
  <2>1. n * (x + 1) <= n * k /\ n * (x + 1) = n * x + n
    BY <1>1, <1>3, TimesMonotone
  <2> QED
    BY <1>1, <1>3, <2>1
<1>4. k <= x <=> n * k <= a
  BY <1>1, <1>2, <1>3
<1> QED
  BY <1>1, <1>4 DEF x

Scale(total) == total \div MaxUnit + 1
Scaled(number, total) == number \div Scale(total)

LEMMA ScaledIs ==
  ASSUME NEW total \in Nat \ {0}
  PROVE  /\ Scale(total) \in Nat \ {0} /\ Scaled(total, total) \in Nat \ {0}
<1> DEFINE q == total \div MaxUnit
<1>1. MaxUnit \in Nat \ {0} /\ 2 <= MaxUnit
  BY ProgressAssumption
<1>2. q \in Int /\ MaxUnit * q <= total /\ MaxUnit * q \in Int
  BY <1>1, DivIs
<1>3. 0 <= q
  <2>1. MaxUnit * 0 <= total
    BY <1>1
  <2> QED
    BY <1>1, <2>1, DivBound
<1> HIDE DEF q
<1>4. q * 2 <= q * MaxUnit
  BY <1>1, <1>2, <1>3, TimesMonotone
<1>5. q + 1 <= total
  BY <1>1, <1>2, <1>3, <1>4
<1>6. (q + 1) * 1 <= total /\ q + 1 \in Nat \ {0}
  BY <1>2, <1>3, <1>5
<1>7. 1 <= total \div (q + 1) /\ total \div (q + 1) \in Int
  BY <1>6, DivBound, DivIs
<1> QED
  BY <1>6, <1>7 DEF Scale, Scaled, q

LEMMA PercentOf ==
  ASSUME NEW completed \in Int, NEW total \in Nat \ {0}
  PROVE  Percent(completed, total)
           = (Whole * Scaled(Lower(completed, total), total)) \div Scaled(total, total)
<1>1. ~(total <= 0)
  OBVIOUS
<1> QED
  BY <1>1, Zenon DEF Percent, Scale, Scaled

LEMMA PercentIs ==
  ASSUME NEW completed \in Nat, NEW total \in Int
  PROVE  /\ Percent(completed, total) \in Int
         /\ Unknown <= Percent(completed, total) /\ Percent(completed, total) <= Whole
<1>1. CASE total <= 0
  BY <1>1 DEF Percent, Unknown, Whole
<1>2. CASE ~(total <= 0)
  <2> DEFINE d == Scale(total)
             low == Lower(completed, total)
             c == Scaled(low, total)
             t == Scaled(total, total)
             x == (Whole * c) \div t
  <2>1. total \in Nat \ {0}
    BY <1>2
  <2>2. d \in Nat \ {0} /\ t \in Nat \ {0}
    BY <2>1, ScaledIs
  <2>3. low \in Nat /\ low <= total
    BY <2>1 DEF Lower
  <2> HIDE DEF low
  <2>4. c <= t /\ c \in Int
    BY <2>1, <2>2, <2>3, DivMonotone, DivIs DEF Scaled
  <2>5. 0 <= c
    <3>1. d * 0 <= low
      BY <2>2, <2>3
    <3> HIDE DEF d
    <3> QED
      BY <2>2, <2>3, <3>1, DivBound DEF Scaled, d
  <2> HIDE DEF c, t
  <2>6. Whole * c \in Nat /\ Whole * c <= Whole * t /\ Whole \in Nat
    BY <2>2, <2>4, <2>5 DEF Whole
  <2>7. x \in Int
    BY <2>2, <2>6, DivIs
  <2>8. 0 <= x
    <3>1. t * 0 <= Whole * c
      BY <2>2, <2>6
    <3> QED
      BY <2>2, <2>6, <3>1, DivBound
  <2>9. x <= (Whole * t) \div t
    BY <2>2, <2>6, DivMonotone
  <2>10. (Whole * t) \div t <= Whole
    <3>1. ~(t * (Whole + 1) <= Whole * t)
      <4>1. t * (Whole + 1) = t * Whole + t /\ t * Whole = Whole * t /\ t * Whole \in Int
        BY <2>2, <2>6
      <4> QED
        BY <2>2, <4>1
    <3>2. ~(Whole + 1 <= (Whole * t) \div t)
      BY <2>2, <2>6, <3>1, DivBound
    <3>3. (Whole * t) \div t \in Int
      BY <2>2, <2>6, DivIs
    <3> QED
      BY <2>6, <3>2, <3>3
  <2>11. Percent(completed, total) = x
    BY <2>1, PercentOf DEF x, c, t, low
  <2> HIDE DEF x
  <2>12. (Whole * t) \div t \in Int
    BY <2>2, <2>6, DivIs
  <2> QED
    BY <2>6, <2>7, <2>8, <2>9, <2>10, <2>11, <2>12 DEF Unknown
<1> QED
  BY <1>1, <1>2

(* Nothing but the rounding of the scale is missing from a whole.            *)
LEMMA WholeIsAll ==
  ASSUME NEW completed \in Nat, NEW total \in Int, Percent(completed, total) >= Whole
  PROVE  total - completed <= total \div MaxUnit
<1> DEFINE d == Scale(total)
           low == Lower(completed, total)
           c == Scaled(low, total)
           t == Scaled(total, total)
<1>1. total \in Nat \ {0}
  BY DEF Percent, Unknown, Whole
<1>2. d \in Nat \ {0} /\ t \in Nat \ {0}
  BY <1>1, ScaledIs
<1>3. low \in Nat /\ low <= completed
  BY <1>1 DEF Lower
<1> HIDE DEF low
<1>4. c \in Int
  BY <1>2, <1>3, DivIs DEF Scaled
<1>5. (Whole * c) \div t >= Whole
  BY <1>1, PercentOf DEF c, t, low
<1> HIDE DEF c, t
<1>6. t * Whole <= Whole * c
  <2>1. Whole * c \in Int /\ Whole \in Int /\ (Whole * c) \div t \in Int
    BY <1>2, <1>4, DivIs DEF Whole
  <2> QED
    BY <1>2, <1>5, <2>1, DivBound
<1>7. t <= c
  BY <1>2, <1>4, <1>6 DEF Whole
<1>8. d * t <= low
  <2>1. t <= low \div d
    BY <1>7 DEF c, Scaled
  <2> HIDE DEF d
  <2> QED
    BY <1>2, <1>3, <2>1, DivBound
<1>9. total < d * t + d /\ d * t \in Int
  <2>1. t = total \div d
    BY DEF t, Scaled
  <2> HIDE DEF d
  <2> QED
    BY <1>1, <1>2, <2>1, DivIs
<1>10. d = total \div MaxUnit + 1 /\ total \div MaxUnit \in Int
  BY <1>1, DivIs, ProgressAssumption DEF Scale
<1> HIDE DEF d
<1> QED
  BY <1>1, <1>2, <1>3, <1>8, <1>9, <1>10

LEMMA PercentMonotone ==
  ASSUME NEW a \in Nat, NEW b \in Nat, a <= b, NEW total \in Int
  PROVE  Percent(a, total) <= Percent(b, total)
<1>1. CASE total <= 0
  BY <1>1 DEF Percent, Unknown
<1>2. CASE ~(total <= 0)
  <2> DEFINE d == Scale(total)
             t == Scaled(total, total)
             x == Lower(a, total)
             y == Lower(b, total)
             c == Scaled(x, total)
             e == Scaled(y, total)
  <2>1. total \in Nat \ {0}
    BY <1>2
  <2>2. d \in Nat \ {0} /\ t \in Nat \ {0}
    BY <2>1, ScaledIs
  <2>3. x \in Nat /\ y \in Nat /\ x <= y
    BY <2>1 DEF Lower
  <2> HIDE DEF x, y
  <2>4. c \in Int /\ e \in Int /\ c <= e
    BY <2>2, <2>3, DivIs, DivMonotone DEF Scaled
  <2> HIDE DEF c, e, t
  <2>5. Whole * c \in Int /\ Whole * e \in Int /\ Whole * c <= Whole * e
    BY <2>4 DEF Whole
  <2>6. (Whole * c) \div t <= (Whole * e) \div t
    BY <2>2, <2>5, DivMonotone
  <2> QED
    BY <2>1, <2>6, PercentOf DEF c, e, t, x, y
<1> QED
  BY <1>1, <1>2

-----------------------------------------------------------------------------
(* One report of a source.                                                   *)

(* What a source has told last.                                              *)
Arrived ==
    [stage : {"downloading", "converting"}, completed : Nat, total : Figures, speed : Figures,
     eta : Figures, percent : Int]
(* Every time that can be shown.                                             *)
Etas  == {StableEta(samples) : samples \in Seq(Int)}
Progresses ==
    [stage : {"downloading", "converting"}, completed : Nat, total : Int, speed : Int,
     eta : Etas, percent : Int]
Aggregators(n) ==
    [expected : {n}, estimate : Figures, sources : [1 .. n -> Arrived], displayed : Int,
     samples : Seq(Int)]

LEMMA UnknownIs == Unknown = -1 /\ Unknown \in Int
  BY DEF Unknown

LEMMA UnknownTime == Unknown \in Etas
<1>1. <<>> \in Seq(Int) /\ Len(<<>>) < EtaSamples
  BY DEF EtaSamples
<1>2. StableEta(<<>>) = Unknown
  BY <1>1, Zenon DEF StableEta
<1> QED
  BY <1>1, <1>2 DEF Etas

LEMMA ParsedIs ==
  ASSUME NEW line \in Lines, IsReport(line)
  PROVE  ParseYtdlp(line) \in Arrived
<1> DEFINE r == line[1].report
           running(number) == IF r.status = "downloading" THEN number ELSE Unknown
           total == Positive(Known(r.exact, r.estimate))
<1>1. line[1] \in Pieces
  BY DEF Lines
<1>2. r \in Told
  BY <1>1 DEF Pieces
<1>3. r.completed # Unknown
  BY DEF IsReport
<1> HIDE DEF r
<1>4. /\ r.completed \in Nat /\ r.exact \in Figures /\ r.estimate \in Figures
      /\ r.speed \in Figures /\ r.eta \in Figures
  BY <1>2, <1>3 DEF Told, Figures
<1>5. total \in Figures /\ total \in Int /\ Unknown \in Figures
  BY <1>4 DEF Figures, Positive, Known, Unknown
<1>6. running(r.speed) \in Figures /\ running(r.eta) \in Figures
  BY <1>4, <1>5
<1> HIDE DEF total, running
<1>7. Percent(r.completed, total) \in Int
  BY <1>4, <1>5, PercentIs
<1>8. MakeProgress("downloading", r.completed, total, running(r.speed), running(r.eta)) \in Arrived
  BY <1>4, <1>5, <1>6, <1>7 DEF MakeProgress, Arrived
<1> QED
  BY <1>8, Zenon DEF ParseYtdlp, running, total, r

LEMMA SilentIs == Silent \in Arrived /\ Silent.total = Unknown
<1>1. Percent(0, Unknown) \in Int
  BY PercentIs, UnknownIs
<1>2. Silent = [stage |-> "downloading", completed |-> 0, total |-> Unknown, speed |-> Unknown,
                eta |-> Unknown, percent |-> Percent(0, Unknown)]
  BY DEF Silent, MakeProgress
<1> QED
  BY <1>1, <1>2 DEF Arrived, Figures

LEMMA SumsAre ==
  ASSUME NEW n \in Nat, NEW sources \in [1 .. n -> Arrived]
  PROVE  /\ CompletedOf(sources) \in Nat /\ ReportedTotal(sources) \in Int
         /\ SpeedOf(sources) \in Int
<1>1. DOMAIN sources = 1 .. n /\ \A s \in 1 .. n : sources[s] \in Arrived
  OBVIOUS
<1>2. [s \in 1 .. n |-> sources[s].completed] \in [1 .. n -> Nat]
  BY <1>1 DEF Arrived
<1>3. [s \in 1 .. n |-> sources[s].total] \in [1 .. n -> Int]
  BY <1>1 DEF Arrived, Figures, Unknown
<1>4. [s \in 1 .. n |-> Known(sources[s].speed, 0)] \in [1 .. n -> Int]
  BY <1>1 DEF Arrived, Figures, Unknown, Known
<1>5. CompletedOf(sources) \in Nat
  BY <1>1, <1>2, SumIsNat DEF CompletedOf
<1>6. SumOf([s \in 1 .. n |-> sources[s].total]) \in Int
  BY <1>3, SumIsInt
<1>7. SumOf([s \in 1 .. n |-> Known(sources[s].speed, 0)]) \in Int
  BY <1>4, SumIsInt
<1> QED
  BY <1>1, <1>5, <1>6, <1>7, UnknownIs DEF ReportedTotal, SpeedOf

LEMMA SamplesAre ==
  ASSUME NEW samples \in Seq(Int), NEW eta \in Int
  PROVE  /\ KeepSample(samples, eta) \in Seq(Int)
         /\ Len(KeepSample(samples, eta)) <= Len(samples) + 1
<1> DEFINE all == Append(samples, eta)
<1>1. all \in Seq(Int) /\ all # <<>> /\ Len(all) = Len(samples) + 1 /\ Len(samples) \in Nat
  BY AppendIs
<1> HIDE DEF all
<1>2. Tail(all) \in Seq(Int) /\ Len(Tail(all)) = Len(all) - 1
  BY <1>1, HeadTailProperties
<1>3. <<>> \in Seq(Int) /\ Len(<<>>) = 0
  OBVIOUS
<1>4. KeepSample(samples, eta)
        = IF eta = Unknown THEN <<>> ELSE IF Len(all) > EtaSamples THEN Tail(all) ELSE all
  BY DEF KeepSample, all
<1>5. CASE eta = Unknown
  BY <1>1, <1>3, <1>4, <1>5
<1>6. CASE eta # Unknown /\ Len(all) > EtaSamples
  BY <1>1, <1>2, <1>4, <1>6
<1>7. CASE eta # Unknown /\ ~(Len(all) > EtaSamples)
  BY <1>1, <1>4, <1>7
<1> QED
  BY <1>5, <1>6, <1>7

(* What a report says of the time that is left.                              *)
EstimateIn(shown, report, n) ==
    Known(Remaining(shown.total, shown.completed, shown.speed),
          IF n = 1 THEN report.eta ELSE Unknown)

(* What an update shows and leaves.                                          *)
Updated(old, new, shown, estimate) ==
    /\ shown.percent # Unknown => old.displayed <= shown.percent
    /\ new.displayed = Higher(old.displayed, shown.percent)
    /\ shown.percent = Whole /\ old.displayed < Whole => AllSourcesArrived(new.sources)
    /\ estimate \in Int /\ new.samples = KeepSample(old.samples, estimate)
    /\ shown.eta = StableEta(new.samples)

LEMMA UpdateIs ==
  ASSUME NEW n \in Nat, NEW aggregator \in Aggregators(n), NEW source \in 1 .. n,
         NEW progress \in Arrived
  PROVE  LET update == Update(aggregator, source, progress)
         IN  /\ update.shown \in Progresses /\ update.next \in Aggregators(n)
             /\ Updated(aggregator, update.next, update.shown,
                        EstimateIn(update.shown, progress, n))
<1> DEFINE sources   == [aggregator.sources EXCEPT ![source] = progress]
           completed == CompletedOf(sources)
           reported  == ReportedTotal(sources)
           total     == Known(reported, aggregator.estimate)
           speed     == SpeedOf(sources)
           eta       == Known(Remaining(total, completed, speed),
                              IF aggregator.expected = 1 THEN progress.eta ELSE Unknown)
           samples   == KeepSample(aggregator.samples, eta)
           shownEta  == StableEta(samples)
           raw       == Percent(completed, total)
           percent   == ShownPercent(aggregator.displayed, raw, reported)
           shown     == [stage |-> "downloading", completed |-> completed, total |-> total,
                         speed |-> speed, eta |-> shownEta, percent |-> percent]
           next      == [aggregator EXCEPT !.sources = sources, !.samples = samples,
                                           !.displayed = Higher(@, percent)]
<1>1. /\ aggregator.sources \in [1 .. n -> Arrived] /\ aggregator.displayed \in Int
      /\ aggregator.samples \in Seq(Int) /\ aggregator.estimate \in Int
  BY UnknownIs DEF Aggregators, Figures
<1>2. sources \in [1 .. n -> Arrived]
  BY <1>1
<1> HIDE DEF sources
<1>3. completed \in Nat /\ reported \in Int /\ speed \in Int
  BY <1>2, SumsAre
<1>17. reported # Unknown =>
          /\ reported = ReportedTotal(sources)
          /\ \A s \in DOMAIN sources : sources[s].total # Unknown
  BY DEF ReportedTotal
<1>18. completed = CompletedOf(sources) /\ reported = ReportedTotal(sources)
  OBVIOUS
<1> HIDE DEF completed, reported, speed
<1>4. total \in Int
  BY <1>1, <1>3 DEF Known
<1>5. reported # Unknown => total = reported
  BY DEF Known
<1> HIDE DEF total
<1>6. eta \in Int
  <2>1. progress.eta \in Int
    BY UnknownIs DEF Arrived, Figures
  <2>2. speed <= 0 \/ speed \in Nat \ {0}
    BY <1>3
  <2>3. total - completed + speed - 1 \in Int
    BY <1>3, <1>4
  <2>4. Remaining(total, completed, speed) \in Int
    BY <2>2, <2>3, DivIs, UnknownIs DEF Remaining
  <2> QED
    BY <2>1, <2>4, UnknownIs DEF Known
<1> HIDE DEF eta
<1>7. samples \in Seq(Int) /\ samples = KeepSample(aggregator.samples, eta)
  BY <1>1, <1>6, SamplesAre
<1> HIDE DEF samples
<1>8. shownEta \in Etas
  BY <1>7 DEF Etas
<1>9. shownEta = StableEta(samples)
  OBVIOUS
<1> HIDE DEF shownEta
<1>10. raw \in Int /\ Unknown <= raw /\ raw <= Whole
  BY <1>3, <1>4, PercentIs
<1>11. raw >= Whole => total - completed <= total \div MaxUnit
  BY <1>3, <1>4, WholeIsAll
<1> HIDE DEF raw
<1>12. /\ percent \in Int
       /\ percent # Unknown => aggregator.displayed <= percent
       /\ percent = Whole /\ aggregator.displayed < Whole => raw = Whole /\ reported # Unknown
  BY <1>1, <1>10 DEF ShownPercent, Higher, Lower, Whole, AlmostAll, Unknown
<1> HIDE DEF percent
<1>13. shown \in Progresses
  BY <1>3, <1>4, <1>8, <1>12 DEF Progresses
<1>14. Higher(aggregator.displayed, percent) \in Int
  BY <1>1, <1>12 DEF Higher
<1>15. /\ next \in Aggregators(n) /\ next.sources = sources /\ next.samples = samples
       /\ next.displayed = Higher(aggregator.displayed, percent)
  BY <1>2, <1>7, <1>14 DEF Aggregators
<1>16. ASSUME percent = Whole, aggregator.displayed < Whole PROVE AllSourcesArrived(sources)
  <2>1. raw >= Whole /\ reported # Unknown
    BY <1>10, <1>12, <1>16
  <2>2. reported - completed <= reported \div MaxUnit
    BY <1>5, <1>11, <2>1
  <2> QED
    BY <1>17, <1>18, <2>1, <2>2, Zenon DEF AllSourcesArrived
<1>19. Update(aggregator, source, progress) = [shown |-> shown, next |-> next]
  <2> DEFINE sum == MakeProgress("downloading", completed, total, speed, shownEta)
  <2>1. /\ sum = [stage |-> "downloading", completed |-> completed, total |-> total,
                  speed |-> speed, eta |-> shownEta, percent |-> raw]
    BY DEF MakeProgress, raw
  <2>2. [sum EXCEPT !.percent = percent] = shown
    BY <2>1
  <2>3. sum.percent = raw
    BY <2>1
  <2> HIDE DEF sum, shown
  <2>4. Update(aggregator, source, progress)
          = [shown |-> [sum EXCEPT !.percent = ShownPercent(aggregator.displayed, sum.percent, reported)],
             next |-> [aggregator EXCEPT !.sources = sources, !.samples = samples,
                !.displayed = Higher(@, ShownPercent(aggregator.displayed, sum.percent, reported))]]
    BY Zenon DEF Update, sources, completed, reported, total, speed, eta, samples, shownEta, sum
  <2> QED
    BY <2>2, <2>3, <2>4 DEF percent
<1> DEFINE update == Update(aggregator, source, progress)
<1>20. update.shown = shown /\ update.next = next
  BY <1>19
<1>22. eta = EstimateIn(shown, progress, n)
  <2>1. shown.total = total /\ shown.completed = completed /\ shown.speed = speed
    OBVIOUS
  <2>2. aggregator.expected = n
    BY DEF Aggregators
  <2> HIDE DEF shown
  <2> QED
    BY <2>1, <2>2, Zenon DEF eta, EstimateIn
<1>23. shown.percent = percent /\ shown.eta = shownEta
  OBVIOUS
<1> HIDE DEF update, shown, next
<1>21. Updated(aggregator, next, shown, EstimateIn(shown, progress, n))
  BY <1>6, <1>7, <1>9, <1>12, <1>15, <1>16, <1>22, <1>23 DEF Updated
<1> QED
  BY <1>13, <1>15, <1>20, <1>21 DEF update

(* The samples that are kept are the last estimates.                         *)
LastOf(samples, estimates, k) ==
    /\ Len(samples) <= EtaSamples /\ Len(samples) <= k
    /\ \A j \in 1 .. Len(samples) :
          samples[j] = estimates[k - Len(samples) + j] /\ samples[j] # Unknown

LEMMA KeptLast ==
  ASSUME NEW samples \in Seq(Int), NEW k \in Nat, NEW old, NEW new,
         \A i \in 1 .. k : new[i] = old[i], new[k + 1] \in Int, LastOf(samples, old, k)
  PROVE  LastOf(KeepSample(samples, new[k + 1]), new, k + 1)
<1> DEFINE e == new[k + 1]
           all == Append(samples, e)
           m == Len(samples)
           kept == KeepSample(samples, e)
<1>1. /\ all \in Seq(Int) /\ all # <<>> /\ Len(all) = m + 1 /\ all[m + 1] = e
      /\ \A j \in 1 .. m : all[j] = samples[j]
  BY AppendIs
<1>2. /\ m \in Nat /\ m <= 3 /\ m <= k
      /\ \A j \in 1 .. m : samples[j] = old[k - m + j] /\ samples[j] # Unknown
  BY DEF LastOf, EtaSamples
<1>3. kept = IF e = Unknown THEN <<>> ELSE IF Len(all) > EtaSamples THEN Tail(all) ELSE all
  BY DEF KeepSample
<1> HIDE DEF e, all, m, kept
<1>4. ASSUME e # Unknown, NEW j \in 1 .. m + 1
      PROVE  all[j] = new[k - m + j] /\ all[j] # Unknown
  <2>1. CASE j = m + 1
    <3>1. k - m + j = k + 1
      BY <1>2, <2>1
    <3> QED
      BY <1>1, <1>4, <2>1, <3>1 DEF e
  <2>2. CASE j # m + 1
    <3>1. j \in 1 .. m /\ k - m + j \in 1 .. k
      BY <1>2, <2>2
    <3> QED
      BY <1>1, <1>2, <3>1
  <2> QED
    BY <2>1, <2>2
<1>5. CASE e = Unknown
  <2>1. kept = <<>> /\ Len(kept) = 0
    BY <1>3, <1>5
  <2> QED
    BY <2>1 DEF LastOf, EtaSamples, kept, e
<1>6. CASE e # Unknown /\ m < 3
  <2>1. kept = all
    BY <1>1, <1>2, <1>3, <1>6 DEF EtaSamples
  <2>2. Len(kept) = m + 1 /\ m + 1 <= 3 /\ m + 1 <= k + 1
    BY <1>1, <1>2, <1>6, <2>1
  <2>3. ASSUME NEW j \in 1 .. m + 1
        PROVE  kept[j] = new[(k + 1) - (m + 1) + j] /\ kept[j] # Unknown
    <3>1. (k + 1) - (m + 1) + j = k - m + j
      BY <1>2
    <3> QED
      BY <1>4, <1>6, <2>1, <3>1
  <2> QED
    BY <2>2, <2>3 DEF LastOf, EtaSamples, kept, e
<1>7. CASE e # Unknown /\ m = 3
  <2>1. kept = Tail(all)
    BY <1>1, <1>2, <1>3, <1>7 DEF EtaSamples
  <2>2. Len(kept) = 3 /\ \A j \in 1 .. 3 : kept[j] = all[j + 1]
    <3>1. Len(all) - 1 = 3
      BY <1>1, <1>7
    <3>2. Len(Tail(all)) = Len(all) - 1 /\ \A j \in 1 .. Len(all) - 1 : Tail(all)[j] = all[j + 1]
      BY <1>1, HeadTailProperties
    <3> QED
      BY <2>1, <3>1, <3>2, Zenon
  <2>3. ASSUME NEW j \in 1 .. 3
        PROVE  kept[j] = new[(k + 1) - 3 + j] /\ kept[j] # Unknown
    <3>1. j + 1 \in 1 .. m + 1 /\ (k + 1) - 3 + j = k - m + (j + 1)
      BY <1>2, <1>7
    <3> QED
      BY <1>4, <1>7, <2>2, <3>1
  <2>4. 3 <= k + 1
    BY <1>2, <1>7
  <2> QED
    BY <2>2, <2>3, <2>4 DEF LastOf, EtaSamples, kept, e
<1> QED
  BY <1>2, <1>5, <1>6, <1>7

(* A time that is shown is the median of the last three.                     *)
LEMMA TimeOfThree ==
  ASSUME NEW samples \in Seq(Int), NEW k \in Nat, NEW estimates,
         LastOf(samples, estimates, k), StableEta(samples) # Unknown
  PROVE  /\ k >= EtaSamples
         /\ \A j \in k - EtaSamples + 1 .. k : estimates[j] # Unknown
         /\ StableEta(samples) = StableEta([j \in 1 .. EtaSamples |-> estimates[k - EtaSamples + j]])
<1> DEFINE m == Len(samples)
           last == [j \in 1 .. EtaSamples |-> estimates[k - EtaSamples + j]]
<1>1. ~(m < EtaSamples)
  BY Zenon DEF StableEta
<1>2. m \in Nat /\ m <= EtaSamples /\ m <= k /\ EtaSamples = 3
  BY DEF LastOf, EtaSamples
<1>3. m = EtaSamples /\ k >= EtaSamples
  <2> HIDE DEF m
  <2> QED
    BY <1>1, <1>2
<1>4. \A j \in 1 .. m : samples[j] = estimates[k - m + j] /\ samples[j] # Unknown
  BY DEF LastOf
<1>5. ASSUME NEW j \in k - EtaSamples + 1 .. k PROVE estimates[j] # Unknown
  <2> DEFINE i == j - (k - 3)
  <2>1. i \in 1 .. 3 /\ k - 3 + i = j
    BY <1>2, <1>3
  <2> HIDE DEF i
  <2> QED
    BY <1>2, <1>3, <1>4, <2>1
<1>6. last = samples
  <2>1. DOMAIN last = 1 .. m /\ DOMAIN samples = 1 .. m
    BY <1>3
  <2>2. \A j \in 1 .. m : last[j] = samples[j]
    BY <1>3, <1>4
  <2>3. samples = [j \in 1 .. m |-> samples[j]]
    BY <2>1
  <2>4. last = [j \in 1 .. m |-> last[j]]
    BY <1>3
  <2> HIDE DEF last
  <2> QED
    BY <2>2, <2>3, <2>4
<1> QED
  BY <1>3, <1>5, <1>6

(* One read of a tool.                                                       *)
LEMMA PushIs ==
  ASSUME NEW protocol \in Protocols, NEW read \in Seq(Pieces)
  PROVE  Push(protocol, read) \in Protocols
<1> DEFINE quiet == [protocol EXCEPT !.lines = <<>>]
           taken == TakenPieces(quiet, read)[Len(read)]
<1>1. <<>> \in Seq(Lines) /\ <<>> \in Seq(Pieces) /\ Len(read) \in 0 .. Len(read)
  OBVIOUS
<1>2. quiet \in Protocols
  BY <1>1 DEF Protocols
<1> HIDE DEF quiet
<1>3. taken \in Protocols
  BY <1>1, <1>2, TakenPiecesAre
<1>4. Spoiled(quiet, "length") \in Protocols
  BY <1>1, <1>2 DEF Protocols, Spoiled
<1> HIDE DEF taken
<1> QED
  BY <1>2, <1>3, <1>4, Zenon DEF Push, quiet, taken

LEMMA RestIsShort ==
  ASSUME NEW p \in Seq(Pieces), Readable(p)
  PROVE  LineSize(Rest(p)) <= MaxLine
<1>1. CASE Rest(p) = <<>>
  <2> DEFINE f == [i \in 1 .. Len(<<>>) |-> <<>>[i].size]
  <2>1. DOMAIN f = {} /\ DOMAIN <<>> = {} /\ f \in [1 .. 0 -> Int]
    OBVIOUS
  <2>2. f = <<>>
    BY <2>1
  <2> HIDE DEF f
  <2>3. SumOf(f) = 0
    BY <2>2, SumOfNone
  <2>4. LineSize(Rest(p)) = SumOf(f)
    BY <1>1 DEF LineSize, f
  <2> QED
    BY <2>3, <2>4, ProgressAssumption
<1>2. CASE Rest(p) # <<>>
  <2>1. Rest(p) = LineTo(p, Len(p)) /\ Len(p) \in 1 .. Len(p)
    BY <1>2 DEF Rest
  <2> QED
    BY <2>1 DEF Readable
<1> QED
  BY <1>1, <1>2

LEMMA ReportsOfNone == Reports(<<>>) = 0
<1>1. {k \in 1 .. Len(<<>>) : IsReport(<<>>[k])} = {}
  OBVIOUS
<1> QED
  BY <1>1, FS_EmptySet DEF Reports

(* What has come first of something that fits does.                          *)
LEMMA FitsFront ==
  ASSUME NEW p \in Seq(Pieces), NEW read \in Seq(Pieces), NEW others \in Nat,
         FitsBeside(p \o read, others)
  PROVE  FitsBeside(p, others)
<1> DEFINE full == p \o read
<1>1. /\ full \in Seq(Pieces) /\ Len(full) = Len(p) + Len(read)
      /\ \A i \in 1 .. Len(p) : full[i] = p[i]
  <2>1. \A i \in 1 .. Len(p) : i \in 1 .. Len(p) + Len(read) /\ i <= Len(p)
    OBVIOUS
  <2> QED
    BY <2>1, ConcatProperties
<1>2. Len(p) <= Len(full)
  <2>1. Len(p) \in Nat /\ Len(read) \in Nat
    OBVIOUS
  <2> HIDE DEF full
  <2> QED
    BY <1>1, <2>1
<1>3. FitsBeside(full, others)
  OBVIOUS
<1> HIDE DEF full
<1> QED
  BY <1>1, <1>2, <1>3, FitsBefore

(* A readable read that is short enough is taken whole.                      *)
LEMMA PushTracked ==
  ASSUME NEW p \in Seq(Pieces), NEW read \in Seq(Pieces), NEW protocol \in Protocols,
         NEW others \in Nat, Tracks(protocol, p, others), FitsBeside(p \o read, others),
         BufferSize(read) <= MaxLine
  PROVE  /\ Tracks(Push(protocol, read), p \o read, others)
         /\ Reports(Push(protocol, read).lines) + Reported(p) = Reported(p \o read)
<1> DEFINE quiet == [protocol EXCEPT !.lines = <<>>]
           full  == p \o read
           r     == TakenPieces(quiet, read)[Len(read)]
<1>1. <<>> \in Seq(Lines)
  OBVIOUS
<1>2. quiet \in Protocols /\ quiet.lines = <<>> /\ Tracks(quiet, p, others)
  BY <1>1 DEF Protocols, Tracks
<1>3. full \in Seq(Pieces)
  BY ConcatProperties
<1> HIDE DEF quiet
<1>4. Readable(p)
  BY FitsFront DEF FitsBeside
<1>5. ~(BufferSize(protocol.pending \o read) > 2 * MaxLine)
  <2> DEFINE x == BufferSize(Rest(p) \o read)
             y == LineSize(Rest(p))
             z == BufferSize(read)
  <2>1. x = y + z
    BY BufferIs
  <2>2. y \in Nat /\ z \in Nat /\ y <= MaxLine /\ z <= MaxLine
    BY <1>4, RestIsShort, RestIs, SizesAre
  <2> HIDE DEF x, y, z
  <2>3. ~(x > 2 * MaxLine)
    BY <2>1, <2>2, ProgressAssumption
  <2> QED
    BY <2>3 DEF x, Tracks
<1>6. protocol.invalid = "none"
  BY DEF Tracks
<1>7. Push(protocol, read) = r
  BY <1>5, <1>6, Zenon DEF Push, quiet, r
<1>8. /\ Tracks(r, full, others)
      /\ Reports(r.lines) + Reported(p) = Reports(quiet.lines) + Reported(full)
  BY <1>2, ReadTracked
<1>9. Reports(quiet.lines) = 0 /\ Reported(full) \in Nat
  BY <1>2, <1>3, ReportsOfNone, EndsAre
<1>10. Reports(quiet.lines) + Reported(full) = Reported(full)
  <2> DEFINE k == Reported(full)
             z == Reports(quiet.lines)
  <2>1. z = 0 /\ k \in Nat
    BY <1>9
  <2> HIDE DEF k, z
  <2>2. z + k = k
    BY <2>1
  <2> QED
    BY <2>2 DEF k, z
<1> HIDE DEF full, r
<1>11. Reports(r.lines) + Reported(p) = Reported(full)
  BY <1>8, <1>10, Zenon
<1> QED
  BY <1>7, <1>8, <1>11 DEF full

-----------------------------------------------------------------------------
(* One attempt.                                                              *)

(* What its lines and its sources are, and what it has shown so far.         *)
Transfers(n) ==
    [source : 1 .. n, protocol : Protocols, aggregator : Aggregators(n), reached : Nat,
     shown : Seq(Progresses), told : Seq(Arrived)]
Displays(attempt) ==
    \A i \in 1 .. Len(attempt.shown) : attempt.shown[i].percent <= attempt.aggregator.displayed
Unfinished(attempt) ==
    (\A i \in 1 .. Len(attempt.shown) : attempt.shown[i].percent < Whole)
        => attempt.aggregator.displayed < Whole
Estimated(attempt) == Estimates(attempt.shown, attempt.told, attempt.aggregator.expected)
Timed(attempt) ==
    /\ Len(attempt.told) = Len(attempt.shown)
    /\ LastOf(attempt.aggregator.samples, Estimated(attempt), Len(attempt.shown))
    /\ MedianOfThree(attempt.shown, Estimated(attempt))
HonestSoFar(attempt) ==
    /\ Displays(attempt) /\ Unfinished(attempt)
    /\ Timed(attempt) /\ NeverGoesBack(attempt.shown)
    /\ CompleteAtLast(attempt.shown) => AllSourcesArrived(attempt.aggregator.sources)
Honest(n) == {attempt \in Transfers(n) : HonestSoFar(attempt)}

LEMMA NewLinesAre ==
  /\ NewLines \in Protocols /\ Tracks(NewLines, <<>>, 0)
  /\ <<>> \in Seq(Pieces) /\ Cardinality(Ends(<<>>)) = 0 /\ Rest(<<>>) = <<>>
<1>1. <<>> \in Seq(Pieces) /\ <<>> \in Seq(Lines) /\ Len(<<>>) = 0
  OBVIOUS
<1>2. Ends(<<>>) = {}
  BY DEF Ends
<1>3. Cardinality(Ends(<<>>)) = 0
  BY <1>2, FS_EmptySet
<1>4. NewLines \in Protocols
  BY <1>1 DEF NewLines, Protocols
<1>5. Tracks(NewLines, <<>>, 0) /\ Rest(<<>>) = <<>>
  BY <1>3 DEF Tracks, NewLines, Rest
<1> QED
  BY <1>1, <1>3, <1>4, <1>5

LEMMA NewIsHonest ==
  ASSUME NEW n \in Nat \ {0}, NEW estimate \in Nat
  PROVE  LET attempt == NewAttempt(n, estimate)
         IN  /\ attempt \in Honest(n) /\ attempt.source = 1 /\ attempt.protocol = NewLines
             /\ attempt.shown = <<>>
<1> DEFINE aggregator == NewAggregator(n, estimate)
           attempt == NewAttempt(n, estimate)
<1>1. Positive(estimate) \in Figures
  BY DEF Positive, Figures
<1>2. [s \in 1 .. n |-> Silent] \in [1 .. n -> Arrived]
  BY SilentIs
<1>3. /\ <<>> \in Seq(Int) /\ Len(<<>>) = 0 /\ <<>> \in Seq(Progresses) /\ 1 \in 1 .. n
      /\ <<>> \in Seq(Arrived)
  OBVIOUS
<1>4. /\ aggregator \in Aggregators(n) /\ aggregator.displayed = Unknown
      /\ aggregator.samples = <<>>
  BY <1>1, <1>2, <1>3, UnknownIs DEF NewAggregator, Aggregators
<1> HIDE DEF aggregator
<1>5. /\ attempt = [source |-> 1, protocol |-> NewLines, aggregator |-> aggregator,
                    reached |-> 0, shown |-> <<>>, told |-> <<>>]
  BY DEF NewAttempt, aggregator
<1> HIDE DEF attempt
<1>6. attempt \in Transfers(n)
  BY <1>3, <1>4, <1>5, NewLinesAre DEF Transfers
<1>7. attempt.shown = <<>> /\ attempt.told = <<>> /\ attempt.aggregator = aggregator
  BY <1>5
<1>8. Displays(attempt)
  BY <1>7 DEF Displays
<1>9. Unfinished(attempt)
  BY <1>4, <1>7 DEF Unfinished, Unknown, Whole
<1>10. NeverGoesBack(attempt.shown) /\ ~CompleteAtLast(attempt.shown)
  BY <1>7 DEF NeverGoesBack, CompleteAtLast
<1>11. Timed(attempt)
  BY <1>3, <1>4, <1>7 DEF Timed, LastOf, MedianOfThree, EtaSamples
<1>12. HonestSoFar(attempt)
  BY <1>8, <1>9, <1>10, <1>11 DEF HonestSoFar
<1> QED
  BY <1>5, <1>6, <1>12 DEF Honest, attempt

(* One report more is shown honestly.                                        *)
Showing(attempt, next, shown, report) ==
    [attempt EXCEPT !.aggregator = next, !.shown = Append(@, shown), !.told = Append(@, report)]

LEMMA ShownIsHonest ==
  ASSUME NEW n \in Nat, NEW attempt \in Honest(n), NEW next \in Aggregators(n),
         NEW shown \in Progresses, NEW report \in Arrived,
         Updated(attempt.aggregator, next, shown, EstimateIn(shown, report, n)),
         NEW after, after = Showing(attempt, next, shown, report)
  PROVE  /\ after \in Honest(n) /\ Len(after.shown) = Len(attempt.shown) + 1
         /\ after.protocol = attempt.protocol /\ after.source = attempt.source
<1> DEFINE list == attempt.shown
           more == Append(list, shown)
           k    == Len(list)
           old  == attempt.aggregator
           told == attempt.told
           heard == Append(told, report)
           est  == Estimated(attempt)
           new  == Estimated(after)
<1>1. attempt \in Transfers(n) /\ HonestSoFar(attempt)
  BY DEF Honest
<1>2. list \in Seq(Progresses) /\ old \in Aggregators(n) /\ told \in Seq(Arrived)
  BY <1>1 DEF Transfers
<1>3. /\ after \in [source : 1 .. n, protocol : Protocols, aggregator : Aggregators(n), reached : Nat,
                    shown : {more}, told : {heard}]
      /\ after.shown = more /\ after.told = heard /\ after.aggregator = next
      /\ after.protocol = attempt.protocol /\ after.source = attempt.source
  BY <1>1 DEF Transfers, Showing
<1>4. /\ more \in Seq(Progresses) /\ more # <<>> /\ Len(more) = k + 1
      /\ more[k + 1] = shown /\ \A i \in 1 .. k : more[i] = list[i]
  BY <1>2, AppendIs
<1>5. k \in Nat /\ DOMAIN more = 1 .. k + 1 /\ DOMAIN list = 1 .. k
  BY <1>2, <1>4, LenProperties
<1>6. \A i \in 1 .. k : list[i] \in Progresses /\ list[i].percent \in Int
  <2>1. \A i \in 1 .. k : list[i] \in Progresses
    BY <1>2, ElementOfSeq
  <2> HIDE DEF list, k
  <2> QED
    BY <2>1 DEF Progresses
<1>7. \A i \in 1 .. k + 1 : i = k + 1 \/ i \in 1 .. k
  BY <1>5
<1>8. \A i \in 1 .. k : i \in 1 .. k + 1 /\ i < k + 1
  BY <1>5
<1>9. old.displayed \in Int /\ next.displayed \in Int /\ shown.percent \in Int
  BY <1>2 DEF Aggregators, Progresses
<1>10. /\ shown.percent # Unknown => old.displayed <= shown.percent
       /\ next.displayed = Higher(old.displayed, shown.percent)
       /\ shown.percent = Whole /\ old.displayed < Whole => AllSourcesArrived(next.sources)
       /\ next.samples = KeepSample(old.samples, EstimateIn(shown, report, n))
       /\ EstimateIn(shown, report, n) \in Int /\ shown.eta = StableEta(next.samples)
  BY DEF Updated
<1>11. /\ \A i \in 1 .. k : list[i].percent <= old.displayed
       /\ (\A i \in 1 .. k : list[i].percent < Whole) => old.displayed < Whole
       /\ LastOf(old.samples, est, k) /\ Len(told) = k
       /\ NeverGoesBack(list) /\ MedianOfThree(list, est)
  BY <1>1 DEF HonestSoFar, Displays, Unfinished, Timed
<1>12. /\ old.samples \in Seq(Int) /\ next.samples \in Seq(Int)
       /\ old.expected = n /\ next.expected = n
  BY <1>2 DEF Aggregators
<1>22. /\ heard \in Seq(Arrived) /\ Len(heard) = k + 1 /\ heard[k + 1] = report
       /\ \A i \in 1 .. k : heard[i] = told[i]
  BY <1>2, <1>11, AppendIs
<1>23. /\ \A i \in 1 .. k : est[i] = EstimateIn(list[i], told[i], n)
       /\ \A i \in 1 .. k + 1 : new[i] = EstimateIn(more[i], heard[i], n)
  <2> HIDE DEF list, more, k, told, heard
  <2>1. est = Estimates(list, told, n) /\ new = Estimates(more, heard, n)
    BY <1>3, <1>12, Zenon DEF Estimated, list, told
  <2> HIDE DEF est, new
  <2> QED
    BY <1>4, <2>1 DEF Estimates, EstimateIn, k
<1> HIDE DEF list, more, k, old, told, heard, est, new
<1>24. /\ \A i \in 1 .. k : new[i] = est[i]
       /\ new[k + 1] = EstimateIn(shown, report, n)
  BY <1>4, <1>5, <1>8, <1>22, <1>23
<1>13. old.displayed <= next.displayed /\ shown.percent <= next.displayed
  BY <1>9, <1>10 DEF Higher
<1>14. LastOf(next.samples, new, k + 1)
  <2>1. new[k + 1] \in Int
    BY <1>10, <1>24
  <2>2. LastOf(KeepSample(old.samples, new[k + 1]), new, k + 1)
    BY <1>5, <1>11, <1>12, <1>24, <2>1, KeptLast
  <2> QED
    BY <1>10, <1>24, <2>2
<1>15. after \in Transfers(n)
  BY <1>3, <1>4, <1>22 DEF Transfers
<1>16. Displays(after)
  <2>1. ASSUME NEW i \in 1 .. k PROVE more[i].percent <= next.displayed
    <3>1. list[i].percent \in Int /\ list[i].percent <= old.displayed /\ more[i] = list[i]
      BY <1>4, <1>6, <1>11
    <3> QED
      BY <1>9, <1>13, <3>1
  <2> QED
    BY <1>3, <1>4, <1>7, <1>13, <2>1 DEF Displays
<1>17. Unfinished(after)
  <2> SUFFICES ASSUME \A i \in 1 .. k + 1 : more[i].percent < Whole
               PROVE  next.displayed < Whole
    BY <1>3, <1>4 DEF Unfinished
  <2>1. shown.percent < Whole /\ \A i \in 1 .. k : list[i].percent < Whole
    <3>1. k + 1 \in 1 .. k + 1
      BY <1>5
    <3> QED
      BY <1>4, <1>8, <3>1
  <2>2. old.displayed < Whole
    BY <1>11, <2>1
  <2> QED
    BY <1>10, <2>1, <2>2 DEF Higher
<1>18. NeverGoesBack(more)
  <2> SUFFICES ASSUME NEW i \in 1 .. k + 1, NEW j \in 1 .. k + 1, i < j, more[j].percent # Unknown
               PROVE  more[i].percent <= more[j].percent
    BY <1>5 DEF NeverGoesBack
  <2>1. i \in 1 .. k
    BY <1>5
  <2>2. CASE j = k + 1
    <3>1. list[i].percent <= old.displayed /\ old.displayed <= shown.percent
      BY <1>4, <1>10, <1>11, <2>1, <2>2
    <3> QED
      BY <1>4, <1>6, <1>9, <2>1, <2>2, <3>1
  <2>3. CASE j # k + 1
    <3>1. j \in 1 .. k
      BY <1>7, <2>3
    <3> QED
      BY <1>4, <1>5, <1>11, <2>1, <3>1 DEF NeverGoesBack
  <2> QED
    BY <2>2, <2>3
<1>19. MedianOfThree(more, new)
  <2> SUFFICES ASSUME NEW i \in 1 .. k + 1, more[i].eta # Unknown
               PROVE  /\ i >= EtaSamples
                      /\ \A j \in i - EtaSamples + 1 .. i : new[j] # Unknown
                      /\ more[i].eta
                           = StableEta([j \in 1 .. EtaSamples |-> new[i - EtaSamples + j]])
    BY <1>4 DEF MedianOfThree
  <2>1. CASE i = k + 1
    <3>1. k + 1 \in Nat /\ more[i].eta = StableEta(next.samples)
      BY <1>4, <1>5, <1>10, <2>1
    <3> QED
      BY <1>12, <1>14, <2>1, <3>1, TimeOfThree
  <2>2. CASE i # k + 1
    <3>1. i \in 1 .. k /\ more[i] = list[i]
      BY <1>4, <1>7, <2>2
    <3>2. /\ i >= EtaSamples
          /\ \A j \in i - EtaSamples + 1 .. i : est[j] # Unknown
          /\ list[i].eta = StableEta([j \in 1 .. EtaSamples |-> est[i - EtaSamples + j]])
      BY <1>11, <3>1 DEF MedianOfThree, k
    <3>3. \A j \in i - EtaSamples + 1 .. i : new[j] = est[j]
      BY <1>5, <1>24, <3>1, <3>2 DEF EtaSamples
    <3>4. \A j \in 1 .. EtaSamples : new[i - EtaSamples + j] = est[i - EtaSamples + j]
      BY <1>5, <1>24, <3>1, <3>2 DEF EtaSamples
    <3>5. [j \in 1 .. EtaSamples |-> new[i - EtaSamples + j]]
            = [j \in 1 .. EtaSamples |-> est[i - EtaSamples + j]]
      BY <3>4
    <3> QED
      BY <3>1, <3>2, <3>3, <3>5
  <2> QED
    BY <2>1, <2>2
<1>20. ASSUME CompleteAtLast(more) PROVE AllSourcesArrived(next.sources)
  <2>1. shown.percent = Whole /\ \A i \in 1 .. k : more[i].percent < Whole
    <3>1. (k + 1) - 1 = k
      BY <1>5
    <3> QED
      BY <1>4, <1>20, <3>1 DEF CompleteAtLast
  <2>2. old.displayed < Whole
    BY <1>4, <1>11, <2>1
  <2> QED
    BY <1>10, <2>1, <2>2
<1>25. Timed(after)
  BY <1>3, <1>4, <1>14, <1>19, <1>22 DEF Timed, new
<1>21. HonestSoFar(after)
  BY <1>3, <1>16, <1>17, <1>18, <1>20, <1>25 DEF HonestSoFar
<1> QED
  BY <1>3, <1>4, <1>15, <1>21 DEF Honest, k, list

(* One line.                                                                 *)
LEMMA LineHonest ==
  ASSUME NEW n \in Nat, NEW attempt \in Honest(n), NEW line \in Lines
  PROVE  LET after == ApplyYtdlpLine(attempt, line)
         IN  /\ after \in Honest(n)
             /\ Len(after.shown) = Len(attempt.shown) + (IF IsReport(line) THEN 1 ELSE 0)
             /\ after.protocol = attempt.protocol /\ after.source = attempt.source
<1> DEFINE report == ParseYtdlp(line)
           update == Update(attempt.aggregator, attempt.source, report)
           after == [attempt EXCEPT !.aggregator = update.next, !.shown = Append(@, update.shown),
                                    !.told = Append(@, report)]
<1>1. /\ attempt.aggregator \in Aggregators(n) /\ attempt.source \in 1 .. n
      /\ Len(attempt.shown) \in Nat
  BY DEF Honest, Transfers
<1>2. CASE IsReport(line)
  <2>1. report \in Arrived
    BY <1>2, ParsedIs
  <2> HIDE DEF report
  <2>2. /\ update.shown \in Progresses /\ update.next \in Aggregators(n)
        /\ Updated(attempt.aggregator, update.next, update.shown,
                   EstimateIn(update.shown, report, n))
    BY <1>1, <2>1, UpdateIs
  <2> DEFINE next  == update.next
             shown == update.shown
  <2>5. /\ next \in Aggregators(n) /\ shown \in Progresses
        /\ Updated(attempt.aggregator, next, shown, EstimateIn(shown, report, n))
    BY <2>2
  <2> HIDE DEF next, shown, update
  <2>6. after = Showing(attempt, next, shown, report)
    BY Zenon DEF next, shown, Showing
  <2> HIDE DEF after
  <2>3. /\ after \in Honest(n) /\ Len(after.shown) = Len(attempt.shown) + 1
        /\ after.protocol = attempt.protocol /\ after.source = attempt.source
    BY <2>1, <2>5, <2>6, ShownIsHonest
  <2>4. ApplyYtdlpLine(attempt, line) = after
    BY <1>2, Zenon DEF ApplyYtdlpLine, report, update, after
  <2> QED
    BY <1>2, <2>3, <2>4
<1>3. CASE ~IsReport(line)
  <2>1. ApplyYtdlpLine(attempt, line) = attempt
    BY <1>3, Zenon DEF ApplyYtdlpLine
  <2> QED
    BY <1>1, <1>3, <2>1
<1> QED
  BY <1>2, <1>3

(* The first of a list.                                                      *)
LEMMA FirstsAre ==
  ASSUME NEW S, NEW list \in Seq(S)
  PROVE  /\ SubSeq(list, 1, 0) = <<>> /\ SubSeq(list, 1, Len(list)) = list
         /\ \A k \in 0 .. Len(list) - 1 :
               /\ SubSeq(list, 1, k) \in Seq(S)
               /\ SubSeq(list, 1, k + 1) = Append(SubSeq(list, 1, k), list[k + 1])
<1> DEFINE N == Len(list)
           F(k) == SubSeq(list, 1, k)
<1>1. N \in Nat /\ \A i \in 1 .. N : list[i] \in S
  BY ElementOfSeq
<1> HIDE DEF N
<1>2. ASSUME NEW k \in 0 .. N
      PROVE  F(k) \in Seq(S) /\ Len(F(k)) = k /\ \A i \in 1 .. k : F(k)[i] = list[i]
  <2>1. 1 \in Int /\ k \in Int /\ k >= 0 /\ k - 1 + 1 = k
    BY <1>1
  <2>2. \A i \in 1 .. k : i \in 1 .. N /\ 1 + i - 1 = i /\ list[i] \in S
    BY <1>1
  <2>3. /\ F(k) \in Seq(S)
        /\ Len(F(k)) = IF 1 <= k THEN k - 1 + 1 ELSE 0
        /\ \A i \in 1 .. k - 1 + 1 : F(k)[i] = list[1 + i - 1]
    BY <2>1, <2>2, SubSeqProperties
  <2> HIDE DEF F
  <2> QED
    BY <2>1, <2>2, <2>3
<1>3. F(0) = <<>>
  <2>1. 0 \in 0 .. N
    BY <1>1
  <2> HIDE DEF F
  <2>2. F(0) \in Seq(S) /\ Len(F(0)) = 0
    BY <1>2, <2>1
  <2> QED
    BY <2>2, EmptySeq
<1>4. F(N) = list
  <2>1. N \in 0 .. N
    BY <1>1
  <2> HIDE DEF F
  <2>2. /\ F(N) \in Seq(S) /\ Len(F(N)) = Len(list)
        /\ \A i \in 1 .. Len(F(N)) : F(N)[i] = list[i]
    BY <1>2, <2>1 DEF N
  <2> QED
    BY <2>2, SeqEqual
<1>5. ASSUME NEW k \in 0 .. N - 1 PROVE F(k) \in Seq(S) /\ F(k + 1) = Append(F(k), list[k + 1])
  <2>1. k \in 0 .. N /\ k + 1 \in 0 .. N /\ k + 1 \in 1 .. N
    BY <1>1
  <2> DEFINE a == F(k)
             b == F(k + 1)
             c == Append(a, list[k + 1])
  <2> HIDE DEF F
  <2>2. a \in Seq(S) /\ Len(a) = k /\ \A i \in 1 .. k : a[i] = list[i]
    BY <1>2, <2>1
  <2>3. b \in Seq(S) /\ Len(b) = k + 1 /\ \A i \in 1 .. k + 1 : b[i] = list[i]
    BY <1>2, <2>1
  <2> HIDE DEF a, b
  <2>4. /\ c \in Seq(S) /\ Len(c) = Len(a) + 1 /\ c[Len(a) + 1] = list[k + 1]
        /\ \A i \in 1 .. Len(a) : c[i] = a[i]
    BY <1>1, <2>1, <2>2, AppendIs
  <2> HIDE DEF c
  <2>5. \A i \in 1 .. k + 1 : i = k + 1 \/ i \in 1 .. k
    BY <2>1
  <2>6. \A i \in 1 .. Len(b) : b[i] = c[i]
    BY <2>2, <2>3, <2>4, <2>5
  <2>7. Len(b) = Len(c)
    BY <2>2, <2>3, <2>4
  <2>8. b = c
    BY <2>3, <2>4, <2>6, <2>7, SeqEqual
  <2> QED
    BY <2>2, <2>8 DEF a, b, c
<1> HIDE DEF F
<1>6. /\ F(0) = <<>> /\ F(N) = list
      /\ \A k \in 0 .. N - 1 : F(k) \in Seq(S) /\ F(k + 1) = Append(F(k), list[k + 1])
  BY <1>3, <1>4, <1>5
<1> QED
  BY <1>6 DEF F, N

(* Several lines.                                                            *)
LEMMA AppliedYtdlpIs ==
  ASSUME NEW n \in Nat, NEW attempt \in Honest(n), NEW lines \in Seq(Lines)
  PROVE  LET after == AppliedYtdlp(attempt, lines)
         IN  /\ after \in [0 .. Len(lines) -> Honest(n)] /\ after[0] = attempt
             /\ \A k \in 1 .. Len(lines) : after[k] = ApplyYtdlpLine(after[k - 1], lines[k])
<1> DEFINE N == Len(lines)
           B == attempt
           step == [k \in 1 .. N |-> [p \in Honest(n) |-> ApplyYtdlpLine(p, lines[k])]]
           Step(g, k) == IF k = 0 THEN B ELSE ApplyYtdlpLine(g[k - 1], lines[k])
           after == AppliedYtdlp(attempt, lines)
<1>1. N \in Nat /\ \A k \in 1 .. N : lines[k] \in Lines
  OBVIOUS
<1>2. B \in Honest(n)
  OBVIOUS
<1> HIDE DEF N, B
<1>3. ASSUME NEW k \in 1 .. N, NEW p \in Honest(n) PROVE ApplyYtdlpLine(p, lines[k]) \in Honest(n)
  BY <1>1, LineHonest
<1>4. Steps(Honest(n), B, N, step)
  BY <1>1, <1>2, <1>3 DEF Steps
<1>5. \A k \in 1 .. N : \A p \in Honest(n) : step[k][p] = ApplyYtdlpLine(p, lines[k])
  OBVIOUS
<1> HIDE DEF step
<1>6. PICK f : Repeats(f, Honest(n), B, N, step)
  BY <1>4, RecursionExists, Zenon
<1>7. f \in [0 .. N -> Honest(n)] /\ f[0] = B /\ \A k \in 1 .. N : f[k] = step[k][f[k - 1]]
  BY <1>6 DEF Repeats
<1>8. \A k \in 0 .. N : f[k] = Step(f, k)
  <2>1. \A k \in 1 .. N : k - 1 \in 0 .. N
    BY <1>1
  <2>2. \A k \in 1 .. N : f[k - 1] \in Honest(n)
    BY <1>7, <2>1
  <2>3. \A k \in 1 .. N : f[k] = ApplyYtdlpLine(f[k - 1], lines[k])
    BY <1>5, <1>7, <2>2, Zenon
  <2>4. \A k \in 0 .. N : k = 0 \/ k \in 1 .. N
    BY <1>1
  <2> QED
    BY <1>7, <2>3, <2>4, Zenon
<1>9. f = [k \in 0 .. N |-> Step(f, k)]
  <2> HIDE DEF Step
  <2> QED
    BY <1>7, <1>8
<1>10. after = CHOOSE g : g = [k \in 0 .. N |-> Step(g, k)]
  BY Zenon DEF AppliedYtdlp, N, B
<1>11. after = [k \in 0 .. N |-> Step(after, k)]
  <2> HIDE DEF Step, after
  <2> QED
    BY <1>9, <1>10
<1> HIDE DEF after
<1>12. \A k \in 0 .. N : after[k] = Step(after, k)
  <2> HIDE DEF Step
  <2> QED
    BY <1>11, Zenon
<1>13. after = [k \in 0 .. N |-> after[k]]
  <2> HIDE DEF Step
  <2> QED
    BY <1>11, <1>12
<1>14. after[0] = B /\ \A k \in 1 .. N : after[k] = ApplyYtdlpLine(after[k - 1], lines[k])
  <2>1. 0 \in 0 .. N /\ \A k \in 1 .. N : k \in 0 .. N /\ k # 0
    BY <1>1
  <2> QED
    BY <1>12, <2>1, Zenon
<1>15. after = [k \in 0 .. N |-> IF k = 0 THEN B ELSE after[k]]
  <2>1. \A k \in 0 .. N : after[k] = IF k = 0 THEN B ELSE after[k]
    BY <1>14, Zenon
  <2> QED
    BY <1>13, <2>1
<1>16. \A k \in 1 .. N : after[k - 1] \in Honest(n) => after[k] = step[k][after[k - 1]]
  BY <1>5, <1>14, Zenon
<1>17. Repeats(after, Honest(n), B, N, step)
  BY <1>4, <1>15, <1>16, RecursionIs, Zenon
<1> QED
  BY <1>14, <1>17 DEF after, N, B, Repeats

LEMMA LinesHonest ==
  ASSUME NEW n \in Nat, NEW attempt \in Honest(n), NEW lines \in Seq(Lines)
  PROVE  LET after == AppliedYtdlp(attempt, lines)[Len(lines)]
         IN  /\ after \in Honest(n)
             /\ Len(after.shown) = Len(attempt.shown) + Reports(lines)
             /\ after.protocol = attempt.protocol /\ after.source = attempt.source
<1> DEFINE N == Len(lines)
           first(k) == SubSeq(lines, 1, k)
           after == AppliedYtdlp(attempt, lines)
           Good(k) == /\ Len(after[k].shown) = Len(attempt.shown) + Reports(first(k))
                      /\ after[k].protocol = attempt.protocol /\ after[k].source = attempt.source
           S == {k \in 0 .. N : Good(k)}
<1>1. N \in Nat /\ \A k \in 1 .. N : lines[k] \in Lines
  OBVIOUS
<1>2. /\ after \in [0 .. N -> Honest(n)] /\ after[0] = attempt
      /\ \A k \in 1 .. N : after[k] = ApplyYtdlpLine(after[k - 1], lines[k])
  BY AppliedYtdlpIs
<1> HIDE DEF after
<1>3. /\ first(0) = <<>> /\ first(N) = lines
      /\ \A k \in 0 .. N - 1 : /\ first(k) \in Seq(Lines)
                               /\ first(k + 1) = Append(first(k), lines[k + 1])
  BY FirstsAre DEF N
<1> HIDE DEF N, first
<1>4. Len(attempt.shown) \in Nat
  BY DEF Honest, Transfers
<1>5. 0 \in S
  BY <1>1, <1>2, <1>3, <1>4, ReportsOfNone
<1>6. ASSUME NEW k \in 0 .. N - 1, k \in S PROVE k + 1 \in S
  <2>1. k \in 0 .. N /\ k + 1 \in 0 .. N /\ k + 1 \in 1 .. N /\ (k + 1) - 1 = k
    BY <1>1
  <2> DEFINE a == after[k]
             b == after[k + 1]
             l == lines[k + 1]
  <2>2. a \in Honest(n) /\ l \in Lines /\ b = ApplyYtdlpLine(a, l)
    BY <1>1, <1>2, <2>1
  <2>3. Good(k)
    BY <1>6
  <2>4. Reports(first(k + 1)) = Reports(first(k)) + (IF IsReport(l) THEN 1 ELSE 0)
        /\ Reports(first(k)) \in Nat
    BY <1>3, <2>2, ReportsGrow, ReportsAre
  <2> HIDE DEF l
  <2>5. /\ Len(b.shown) = Len(a.shown) + (IF IsReport(l) THEN 1 ELSE 0)
        /\ b.protocol = a.protocol /\ b.source = a.source
    <3> HIDE DEF a, b
    <3> QED
      BY <2>2, LineHonest
  <2>6. Len(b.shown) = Len(attempt.shown) + Reports(first(k + 1))
    <3> DEFINE u == Len(attempt.shown)
               v == Reports(first(k))
               w == IF IsReport(l) THEN 1 ELSE 0
    <3>1. u \in Nat /\ v \in Nat /\ w \in Nat
      BY <1>4, <2>4
    <3>2. Len(b.shown) = (u + v) + w /\ Reports(first(k + 1)) = v + w
      BY <2>3, <2>4, <2>5, Zenon
    <3> HIDE DEF u, v, w
    <3>3. (u + v) + w = u + (v + w)
      BY <3>1
    <3> QED
      BY <3>2, <3>3, Zenon DEF u
  <2>7. Good(k + 1)
    BY <2>3, <2>5, <2>6
  <2> HIDE DEF Good
  <2> QED
    BY <2>1, <2>7
<1>7. 0 .. N \subseteq S
  <2> HIDE DEF S
  <2> QED
    BY <1>1, <1>5, <1>6, KeptAlong
<1>8. N \in 0 .. N
  BY <1>1
<1>9. Good(N) /\ after[N] \in Honest(n)
  <2> HIDE DEF Good
  <2> QED
    BY <1>2, <1>7, <1>8
<1> QED
  BY <1>3, <1>9 DEF after, N

(* One read of a transfer.                                                   *)
LEMMA SameShown ==
  ASSUME NEW n \in Nat, NEW attempt \in Honest(n), NEW after \in Transfers(n),
         after.aggregator = attempt.aggregator, after.shown = attempt.shown,
         after.told = attempt.told
  PROVE  after \in Honest(n)
  BY DEF Honest, HonestSoFar, Displays, Unfinished, Timed, Estimated

LEMMA HeardHonest ==
  ASSUME NEW n \in Nat, NEW attempt \in Honest(n), NEW protocol \in Protocols
  PROVE  LET after == [attempt EXCEPT !.protocol = protocol]
         IN  /\ after \in Honest(n) /\ after.protocol = protocol
             /\ after.source = attempt.source /\ after.shown = attempt.shown
<1> DEFINE after == [attempt EXCEPT !.protocol = protocol]
<1>1. /\ after \in Transfers(n) /\ after.aggregator = attempt.aggregator
      /\ after.shown = attempt.shown /\ after.protocol = protocol
      /\ after.source = attempt.source /\ after.told = attempt.told
  BY DEF Honest, Transfers
<1> HIDE DEF after
<1>2. after \in Honest(n)
  BY <1>1, SameShown
<1> QED
  BY <1>1, <1>2 DEF after

LEMMA EventHonest ==
  ASSUME NEW n \in Nat, NEW attempt \in Honest(n), NEW read \in Seq(Pieces)
  PROVE  LET after == ApplyYtdlpEvent(attempt, read)
             protocol == Push(attempt.protocol, read)
         IN  /\ after \in Honest(n) /\ after.protocol = protocol /\ after.source = attempt.source
             /\ Len(after.shown) = Len(attempt.shown) + Reports(protocol.lines)
<1> DEFINE protocol == Push(attempt.protocol, read)
           heard == [attempt EXCEPT !.protocol = protocol]
           lines == protocol.lines
<1>1. attempt.protocol \in Protocols
  BY DEF Honest, Transfers
<1>2. protocol \in Protocols
  BY <1>1, PushIs
<1>3. lines \in Seq(Lines)
  BY <1>2 DEF Protocols
<1> HIDE DEF protocol
<1>4. /\ heard \in Honest(n) /\ heard.protocol = protocol /\ heard.source = attempt.source
      /\ heard.shown = attempt.shown
  BY <1>2, HeardHonest
<1> HIDE DEF heard, lines
<1> DEFINE after == AppliedYtdlp(heard, lines)[Len(lines)]
<1>5. /\ after \in Honest(n) /\ Len(after.shown) = Len(heard.shown) + Reports(lines)
      /\ after.protocol = heard.protocol /\ after.source = heard.source
  BY <1>3, <1>4, LinesHonest
<1>6. ApplyYtdlpEvent(attempt, read) = after
  BY Zenon DEF ApplyYtdlpEvent, heard, lines, protocol
<1> HIDE DEF after
<1> QED
  BY <1>4, <1>5, <1>6 DEF lines, protocol

(* A transfer: reads of its sources, one source after the other.             *)
Transferred(n) == [source : 1 .. n, stream : Pipes, read : Seq(Pieces)]
InOrder(reads) == \A i \in 1 .. Len(reads) - 1 : reads[i].source <= reads[i + 1].source
IsTransfer(transfer) ==
    /\ transfer.expected \in Nat \ {0} /\ transfer.estimate \in Nat
    /\ transfer.reads \in Seq(Transferred(transfer.expected)) /\ InOrder(transfer.reads)

(* The attempt a read comes to.                                              *)
Ready(attempt, source) ==
    IF source = attempt.source THEN attempt
    ELSE [attempt EXCEPT !.source = source, !.protocol = NewLines]

LEMMA ReadyHonest ==
  ASSUME NEW n \in Nat, NEW attempt \in Honest(n), NEW source \in 1 .. n
  PROVE  LET ready == Ready(attempt, source)
         IN  /\ ready \in Honest(n) /\ ready.source = source /\ ready.shown = attempt.shown
             /\ ready.protocol = IF source = attempt.source THEN attempt.protocol ELSE NewLines
<1>1. CASE source = attempt.source
  BY <1>1 DEF Ready
<1>2. CASE source # attempt.source
  <2> DEFINE ready == [attempt EXCEPT !.source = source, !.protocol = NewLines]
  <2>1. /\ ready \in Transfers(n) /\ ready.aggregator = attempt.aggregator
        /\ ready.shown = attempt.shown /\ ready.told = attempt.told
        /\ ready.protocol = NewLines /\ ready.source = source
    BY NewLinesAre DEF Honest, Transfers
  <2>2. Ready(attempt, source) = ready
    BY <1>2, Zenon DEF Ready
  <2> HIDE DEF ready
  <2>3. ready \in Honest(n)
    BY <2>1, SameShown
  <2> QED
    BY <1>2, <2>1, <2>2, <2>3
<1> QED
  BY <1>1, <1>2

LEMMA TakeReadHonest ==
  ASSUME NEW n \in Nat, NEW attempt \in Honest(n), NEW read \in Transferred(n)
  PROVE  LET after == TakeRead(attempt, read)
             ready == Ready(attempt, read.source)
             protocol == Push(ready.protocol, read.read)
         IN  /\ after \in Honest(n) /\ after.protocol = protocol /\ after.source = read.source
             /\ Len(after.shown) = Len(attempt.shown) + Reports(protocol.lines)
<1> DEFINE ready == Ready(attempt, read.source)
           pieces == read.read
<1>1. read.source \in 1 .. n /\ pieces \in Seq(Pieces)
  BY DEF Transferred
<1>2. ready \in Honest(n) /\ ready.source = read.source /\ ready.shown = attempt.shown
  BY <1>1, ReadyHonest
<1>3. TakeRead(attempt, read) = ApplyYtdlpEvent(ready, pieces)
  BY Zenon DEF TakeRead, Ready, ready, pieces
<1> HIDE DEF ready, pieces
<1> DEFINE after == ApplyYtdlpEvent(ready, pieces)
           protocol == Push(ready.protocol, pieces)
<1>4. /\ after \in Honest(n) /\ after.protocol = protocol /\ after.source = ready.source
      /\ Len(after.shown) = Len(ready.shown) + Reports(protocol.lines)
  BY <1>1, <1>2, EventHonest
<1> HIDE DEF after, protocol
<1>5. /\ after \in Honest(n) /\ after.protocol = protocol /\ after.source = read.source
      /\ Len(after.shown) = Len(attempt.shown) + Reports(protocol.lines)
  BY <1>2, <1>4
<1> QED
  BY <1>3, <1>5, Zenon DEF protocol, after, ready, pieces

LEMMA AttemptsAre ==
  ASSUME NEW transfer, IsTransfer(transfer)
  PROVE  LET after == Attempts(transfer)
         IN  /\ after \in [0 .. Len(transfer.reads) -> Honest(transfer.expected)] /\ after[0] = NewAttempt(transfer.expected, transfer.estimate)
             /\ \A k \in 1 .. Len(transfer.reads) : after[k] = TakeRead(after[k - 1], transfer.reads[k])
<1> DEFINE N == Len(transfer.reads)
           B == NewAttempt(transfer.expected, transfer.estimate)
           step == [k \in 1 .. N |-> [p \in Honest(transfer.expected) |-> TakeRead(p, transfer.reads[k])]]
           Step(g, k) == IF k = 0 THEN B ELSE TakeRead(g[k - 1], transfer.reads[k])
           after == Attempts(transfer)
<1>1. N \in Nat /\ \A k \in 1 .. N : transfer.reads[k] \in Transferred(transfer.expected)
  BY DEF IsTransfer
<1>2. B \in Honest(transfer.expected)
  BY NewIsHonest DEF IsTransfer
<1> HIDE DEF N, B
<1>3. ASSUME NEW k \in 1 .. N, NEW p \in Honest(transfer.expected) PROVE TakeRead(p, transfer.reads[k]) \in Honest(transfer.expected)
  BY <1>1, TakeReadHonest DEF IsTransfer
<1>4. Steps(Honest(transfer.expected), B, N, step)
  BY <1>1, <1>2, <1>3 DEF Steps
<1>5. \A k \in 1 .. N : \A p \in Honest(transfer.expected) : step[k][p] = TakeRead(p, transfer.reads[k])
  OBVIOUS
<1> HIDE DEF step
<1>6. PICK f : Repeats(f, Honest(transfer.expected), B, N, step)
  BY <1>4, RecursionExists, Zenon
<1>7. f \in [0 .. N -> Honest(transfer.expected)] /\ f[0] = B /\ \A k \in 1 .. N : f[k] = step[k][f[k - 1]]
  BY <1>6 DEF Repeats
<1>8. \A k \in 0 .. N : f[k] = Step(f, k)
  <2>1. \A k \in 1 .. N : k - 1 \in 0 .. N
    BY <1>1
  <2>2. \A k \in 1 .. N : f[k - 1] \in Honest(transfer.expected)
    BY <1>7, <2>1
  <2>3. \A k \in 1 .. N : f[k] = TakeRead(f[k - 1], transfer.reads[k])
    BY <1>5, <1>7, <2>2, Zenon
  <2>4. \A k \in 0 .. N : k = 0 \/ k \in 1 .. N
    BY <1>1
  <2> QED
    BY <1>7, <2>3, <2>4, Zenon
<1>9. f = [k \in 0 .. N |-> Step(f, k)]
  <2> HIDE DEF Step
  <2> QED
    BY <1>7, <1>8
<1>10. after = CHOOSE g : g = [k \in 0 .. N |-> Step(g, k)]
  BY Zenon DEF Attempts, N, B
<1>11. after = [k \in 0 .. N |-> Step(after, k)]
  <2> HIDE DEF Step, after
  <2> QED
    BY <1>9, <1>10
<1> HIDE DEF after
<1>12. \A k \in 0 .. N : after[k] = Step(after, k)
  <2> HIDE DEF Step
  <2> QED
    BY <1>11, Zenon
<1>13. after = [k \in 0 .. N |-> after[k]]
  <2> HIDE DEF Step
  <2> QED
    BY <1>11, <1>12
<1>14. after[0] = B /\ \A k \in 1 .. N : after[k] = TakeRead(after[k - 1], transfer.reads[k])
  <2>1. 0 \in 0 .. N /\ \A k \in 1 .. N : k \in 0 .. N /\ k # 0
    BY <1>1
  <2> QED
    BY <1>12, <2>1, Zenon
<1>15. after = [k \in 0 .. N |-> IF k = 0 THEN B ELSE after[k]]
  <2>1. \A k \in 0 .. N : after[k] = IF k = 0 THEN B ELSE after[k]
    BY <1>14, Zenon
  <2> QED
    BY <1>13, <2>1
<1>16. \A k \in 1 .. N : after[k - 1] \in Honest(transfer.expected) => after[k] = step[k][after[k - 1]]
  BY <1>5, <1>14, Zenon
<1>17. Repeats(after, Honest(transfer.expected), B, N, step)
  BY <1>4, <1>15, <1>16, RecursionIs, Zenon
<1> QED
  BY <1>14, <1>17 DEF after, N, B, Repeats

(* What a read brings to a pipe of a source.                                 *)
Brought(read, source, pipe) ==
    IF read.source = source /\ read.stream = pipe THEN read.read ELSE <<>>

LEMMA PiecesToAre ==
  ASSUME NEW transfer, IsTransfer(transfer), NEW source, NEW pipe
  PROVE  LET after == PiecesTo(transfer, source, pipe)
         IN  /\ after \in [0 .. Len(transfer.reads) -> Seq(Pieces)] /\ after[0] = <<>>
             /\ \A k \in 1 .. Len(transfer.reads) : after[k] = after[k - 1] \o Brought(transfer.reads[k], source, pipe)
<1> DEFINE N == Len(transfer.reads)
           B == <<>>
           step == [k \in 1 .. N |-> [p \in Seq(Pieces) |-> p \o Brought(transfer.reads[k], source, pipe)]]
           Step(g, k) == IF k = 0 THEN B ELSE g[k - 1] \o Brought(transfer.reads[k], source, pipe)
           after == PiecesTo(transfer, source, pipe)
<1>1. N \in Nat /\ \A k \in 1 .. N : Brought(transfer.reads[k], source, pipe) \in Seq(Pieces)
  <2>1. N \in Nat /\ <<>> \in Seq(Pieces)
    BY DEF IsTransfer
  <2>2. \A k \in 1 .. N : transfer.reads[k] \in Transferred(transfer.expected)
    BY ElementOfSeq DEF IsTransfer
  <2>3. \A k \in 1 .. N : transfer.reads[k].read \in Seq(Pieces)
    <3> HIDE DEF N
    <3> QED
      BY <2>2 DEF Transferred
  <2> HIDE DEF N
  <2> QED
    BY <2>1, <2>3 DEF Brought
<1>2. B \in Seq(Pieces)
  OBVIOUS
<1> HIDE DEF N, B
<1>3. ASSUME NEW k \in 1 .. N, NEW p \in Seq(Pieces) PROVE p \o Brought(transfer.reads[k], source, pipe) \in Seq(Pieces)
  BY <1>1, ConcatProperties
<1>4. Steps(Seq(Pieces), B, N, step)
  BY <1>1, <1>2, <1>3 DEF Steps
<1>5. \A k \in 1 .. N : \A p \in Seq(Pieces) : step[k][p] = p \o Brought(transfer.reads[k], source, pipe)
  OBVIOUS
<1> HIDE DEF step
<1>6. PICK f : Repeats(f, Seq(Pieces), B, N, step)
  BY <1>4, RecursionExists, Zenon
<1>7. f \in [0 .. N -> Seq(Pieces)] /\ f[0] = B /\ \A k \in 1 .. N : f[k] = step[k][f[k - 1]]
  BY <1>6 DEF Repeats
<1>8. \A k \in 0 .. N : f[k] = Step(f, k)
  <2>1. \A k \in 1 .. N : k - 1 \in 0 .. N
    BY <1>1
  <2>2. \A k \in 1 .. N : f[k - 1] \in Seq(Pieces)
    BY <1>7, <2>1
  <2>3. \A k \in 1 .. N : f[k] = f[k - 1] \o Brought(transfer.reads[k], source, pipe)
    BY <1>5, <1>7, <2>2, Zenon
  <2>4. \A k \in 0 .. N : k = 0 \/ k \in 1 .. N
    BY <1>1
  <2> QED
    BY <1>7, <2>3, <2>4, Zenon
<1>9. f = [k \in 0 .. N |-> Step(f, k)]
  <2> HIDE DEF Step
  <2> QED
    BY <1>7, <1>8
<1>10. after = CHOOSE g : g = [k \in 0 .. N |-> Step(g, k)]
  BY Zenon DEF PiecesTo, Brought, N, B
<1>11. after = [k \in 0 .. N |-> Step(after, k)]
  <2> HIDE DEF Step, after
  <2> QED
    BY <1>9, <1>10
<1> HIDE DEF after
<1>12. \A k \in 0 .. N : after[k] = Step(after, k)
  <2> HIDE DEF Step
  <2> QED
    BY <1>11, Zenon
<1>13. after = [k \in 0 .. N |-> after[k]]
  <2> HIDE DEF Step
  <2> QED
    BY <1>11, <1>12
<1>14. after[0] = B /\ \A k \in 1 .. N : after[k] = after[k - 1] \o Brought(transfer.reads[k], source, pipe)
  <2>1. 0 \in 0 .. N /\ \A k \in 1 .. N : k \in 0 .. N /\ k # 0
    BY <1>1
  <2> QED
    BY <1>12, <2>1, Zenon
<1>15. after = [k \in 0 .. N |-> IF k = 0 THEN B ELSE after[k]]
  <2>1. \A k \in 0 .. N : after[k] = IF k = 0 THEN B ELSE after[k]
    BY <1>14, Zenon
  <2> QED
    BY <1>13, <2>1
<1>16. \A k \in 1 .. N : after[k - 1] \in Seq(Pieces) => after[k] = step[k][after[k - 1]]
  BY <1>5, <1>14, Zenon
<1>17. Repeats(after, Seq(Pieces), B, N, step)
  BY <1>4, <1>15, <1>16, RecursionIs, Zenon
<1> QED
  BY <1>14, <1>17 DEF after, N, B, Repeats

-----------------------------------------------------------------------------
(* The two pipes of a source.                                                *)
Other(pipe) == IF pipe = "stdout" THEN "stderr" ELSE "stdout"
LinesIn(both) == Cardinality(Ends(both["stdout"])) + Cardinality(Ends(both["stderr"]))
SentIn(both)  == Reported(both["stdout"]) + Reported(both["stderr"])
FairIn(both)  == LinesIn(both) <= MaxLines /\ \A pipe \in Pipes : Readable(both[pipe])

(* The open line is that of one of them.                                     *)
Holds(protocol, both) ==
    \E pipe \in Pipes :
        /\ Tracks(protocol, both[pipe], Cardinality(Ends(both[Other(pipe)])))
        /\ Rest(both[Other(pipe)]) = <<>>

LEMMA OtherIs ==
  ASSUME NEW pipe \in Pipes
  PROVE  /\ Other(pipe) \in Pipes /\ Other(pipe) # pipe
         /\ \A any \in Pipes : any = pipe \/ any = Other(pipe)
         /\ Other(Other(pipe)) = pipe
  BY DEF Pipes, Other

LEMMA BothAre ==
  ASSUME NEW both \in [Pipes -> Seq(Pieces)], NEW pipe \in Pipes
  PROVE  LET here == both[pipe]
             there == both[Other(pipe)]
         IN  /\ here \in Seq(Pieces) /\ there \in Seq(Pieces)
             /\ Cardinality(Ends(here)) \in Nat /\ Cardinality(Ends(there)) \in Nat
             /\ Reported(here) \in Nat /\ Reported(there) \in Nat
             /\ LinesIn(both) = Cardinality(Ends(here)) + Cardinality(Ends(there))
             /\ SentIn(both) = Reported(here) + Reported(there)
<1> DEFINE here == both[pipe]
           there == both[Other(pipe)]
<1>1. here \in Seq(Pieces) /\ there \in Seq(Pieces)
  BY OtherIs
<1>2. /\ Cardinality(Ends(here)) \in Nat /\ Cardinality(Ends(there)) \in Nat
      /\ Reported(here) \in Nat /\ Reported(there) \in Nat
  <2> HIDE DEF here, there
  <2> QED
    BY <1>1, EndsAre
<1>3. CASE pipe = "stdout"
  BY <1>1, <1>2, <1>3 DEF Other, LinesIn, SentIn
<1>4. CASE pipe = "stderr"
  BY <1>1, <1>2, <1>4 DEF Other, LinesIn, SentIn
<1> QED
  BY <1>3, <1>4 DEF Pipes

(* When the line of the other pipe is whole, the open one is this pipe's.    *)
LEMMA HoldsHere ==
  ASSUME NEW both \in [Pipes -> Seq(Pieces)], NEW pipe \in Pipes, NEW protocol,
         Holds(protocol, both), Rest(both[Other(pipe)]) = <<>>
  PROVE  Tracks(protocol, both[pipe], Cardinality(Ends(both[Other(pipe)])))
<1>1. PICK any \in Pipes :
         /\ Tracks(protocol, both[any], Cardinality(Ends(both[Other(any)])))
         /\ Rest(both[Other(any)]) = <<>>
  BY Zenon DEF Holds
<1>2. CASE any = pipe
  BY <1>1, <1>2
<1>3. CASE any = Other(pipe)
  <2>1. Other(any) = pipe
    BY <1>3, OtherIs
  <2> DEFINE here == both[pipe]
             there == both[Other(pipe)]
             x == Cardinality(Ends(here))
             y == Cardinality(Ends(there))
  <2>2. Tracks(protocol, there, x) /\ Rest(here) = <<>> /\ Rest(there) = <<>>
    BY <1>1, <1>3, <2>1
  <2>3. x \in Nat /\ y \in Nat
    BY BothAre
  <2> HIDE DEF here, there
  <2>4. /\ protocol.invalid = "none" /\ protocol.pending = Rest(here)
        /\ protocol.observed = y + x
    BY <2>2 DEF Tracks
  <2>5. y + x = x + y
    <3> HIDE DEF x, y
    <3> QED
      BY <2>3
  <2>6. Tracks(protocol, here, y)
    BY <2>4, <2>5 DEF Tracks
  <2> QED
    BY <2>6 DEF here, there
<1> QED
  BY <1>2, <1>3, OtherIs

(* One read of one pipe, when the line of the other one is whole.            *)
ReadOn(both, more, pipe, sent, protocol) ==
    /\ more[pipe] = both[pipe] \o sent /\ more[Other(pipe)] = both[Other(pipe)]
    /\ BufferSize(sent) <= MaxLine /\ Rest(both[Other(pipe)]) = <<>> /\ FairIn(more)
    /\ FairIn(both) => Holds(protocol, both)

LEMMA PipeFollows ==
  ASSUME NEW both \in [Pipes -> Seq(Pieces)], NEW more \in [Pipes -> Seq(Pieces)],
         NEW pipe \in Pipes, NEW sent \in Seq(Pieces), NEW protocol \in Protocols,
         ReadOn(both, more, pipe, sent, protocol)
  PROVE  LET after == Push(protocol, sent)
         IN  /\ FairIn(both) /\ Holds(after, more)
             /\ Reports(after.lines) + SentIn(both) = SentIn(more)
<1> DEFINE here  == both[pipe]
           there == both[Other(pipe)]
           new   == more[pipe]
           others == Cardinality(Ends(there))
           after == Push(protocol, sent)
<1>12. /\ more[pipe] = both[pipe] \o sent /\ more[Other(pipe)] = both[Other(pipe)]
       /\ BufferSize(sent) <= MaxLine /\ Rest(both[Other(pipe)]) = <<>> /\ FairIn(more)
       /\ FairIn(both) => Holds(protocol, both)
  BY Zenon DEF ReadOn
<1>1. /\ here \in Seq(Pieces) /\ there \in Seq(Pieces)
      /\ Cardinality(Ends(here)) \in Nat /\ others \in Nat
      /\ Reported(here) \in Nat /\ Reported(there) \in Nat
      /\ LinesIn(both) = Cardinality(Ends(here)) + others
      /\ SentIn(both) = Reported(here) + Reported(there)
  BY BothAre
<1>2. /\ new \in Seq(Pieces) /\ more[Other(pipe)] = there
      /\ Cardinality(Ends(new)) \in Nat /\ Reported(new) \in Nat
      /\ LinesIn(more) = Cardinality(Ends(new)) + others
      /\ SentIn(more) = Reported(new) + Reported(there)
  BY <1>12, BothAre
<1>3. new = here \o sent /\ Rest(there) = <<>>
  BY <1>12
<1>4. Readable(new) /\ Readable(there) /\ FitsBeside(new, others)
  <2>1. Readable(new) /\ Readable(there)
    BY <1>2, <1>12, OtherIs DEF FairIn
  <2> QED
    BY <1>2, <1>12, <2>1 DEF FairIn, FitsBeside
<1>5. FairIn(both) => Tracks(protocol, here, others)
  BY <1>12, HoldsHere
<1> HIDE DEF here, there, new, others
<1>6. FitsBeside(here, others)
  BY <1>1, <1>3, <1>4, FitsFront
<1>7. FairIn(both)
  <2>1. \A any \in Pipes : Readable(both[any])
    BY <1>4, <1>6, OtherIs DEF FitsBeside, here, there
  <2> QED
    BY <1>1, <1>6, <2>1 DEF FairIn, FitsBeside
<1>8. /\ Tracks(after, here \o sent, others)
      /\ Reports(after.lines) + Reported(here) = Reported(here \o sent)
  BY <1>1, <1>3, <1>4, <1>5, <1>7, <1>12, PushTracked
<1>9. Holds(after, more)
  <2>1. Tracks(after, more[pipe], Cardinality(Ends(more[Other(pipe)])))
    BY <1>2, <1>3, <1>8, Zenon DEF new, others
  <2>2. Rest(more[Other(pipe)]) = <<>>
    BY <1>2, <1>3, Zenon
  <2> QED
    BY <2>1, <2>2, Zenon DEF Holds
<1>10. Reports(after.lines) \in Nat
  <2>1. after \in Protocols
    BY PushIs
  <2>2. after.lines \in Seq(Lines)
    BY <2>1 DEF Protocols
  <2> QED
    BY <2>2, ReportsAre
<1>11. Reports(after.lines) + SentIn(both) = SentIn(more)
  <2> DEFINE r == Reports(after.lines)
             u == Reported(here)
             v == Reported(new)
             w == Reported(there)
  <2>1. r \in Nat /\ u \in Nat /\ v \in Nat /\ w \in Nat /\ r + u = v
    BY <1>1, <1>2, <1>3, <1>8, <1>10
  <2> HIDE DEF r, u, v, w
  <2>2. r + (u + w) = v + w
    BY <2>1
  <2> QED
    BY <1>1, <1>2, <2>2 DEF r, u, v, w
<1> QED
  BY <1>7, <1>9, <1>11

-----------------------------------------------------------------------------
(* A transfer follows what its sources have sent: the lines of the source    *)
(* that is read, and a report of every report that was sent.                 *)
Follows(attempt, n, pieces) ==
    /\ \A s \in 1 .. n : s > attempt.source => \A pipe \in Pipes : pieces[s][pipe] = <<>>
    /\ FairIn(pieces[attempt.source]) => Holds(attempt.protocol, pieces[attempt.source])
    /\ (\A s \in 1 .. n : FairIn(pieces[s]))
          => Len(attempt.shown) = SumOf([s \in 1 .. n |-> SentIn(pieces[s])])

LEMMA ReadFollows ==
  ASSUME NEW n \in Nat, NEW attempt \in Honest(n), NEW read \in Transferred(n),
         attempt.source <= read.source, BufferSize(read.read) <= MaxLine,
         NEW pieces \in [1 .. n -> [Pipes -> Seq(Pieces)]],
         NEW more \in [1 .. n -> [Pipes -> Seq(Pieces)]], Follows(attempt, n, pieces),
         \A s \in 1 .. n, pipe \in Pipes : more[s][pipe] = pieces[s][pipe] \o Brought(read, s, pipe),
         Rest(pieces[read.source][Other(read.stream)]) = <<>>
  PROVE  Follows(TakeRead(attempt, read), n, more)
<1> DEFINE source == read.source
           pipe   == read.stream
           sent   == read.read
           ready  == Ready(attempt, source)
           old    == pieces[source]
           new    == more[source]
           protocol == Push(ready.protocol, sent)
           after  == TakeRead(attempt, read)
           f == [s \in 1 .. n |-> SentIn(pieces[s])]
           g == [s \in 1 .. n |-> SentIn(more[s])]
<1>1. source \in 1 .. n /\ pipe \in Pipes /\ sent \in Seq(Pieces) /\ attempt.source \in 1 .. n
  BY DEF Transferred, Honest, Transfers
<1>2. /\ old \in [Pipes -> Seq(Pieces)] /\ new \in [Pipes -> Seq(Pieces)]
      /\ new[pipe] = old[pipe] \o sent
  BY <1>1 DEF Brought
<1>13. /\ new[Other(pipe)] = old[Other(pipe)] /\ Rest(old[Other(pipe)]) = <<>>
  <2>1. Other(pipe) \in Pipes /\ Other(pipe) # pipe
    BY <1>1, OtherIs
  <2>2. new[Other(pipe)] = old[Other(pipe)] \o <<>>
    BY <1>1, <2>1 DEF Brought
  <2>3. old[Other(pipe)] \in Seq(Pieces)
    BY <1>2, <2>1
  <2> QED
    BY <2>2, <2>3, ConcatEmptySeq
<1>3. \A s \in 1 .. n : s # source => more[s] = pieces[s]
  <2> TAKE s \in 1 .. n
  <2> HAVE s # source
  <2>1. \A any \in Pipes : pieces[s][any] \in Seq(Pieces) /\ more[s][any] = pieces[s][any] \o <<>>
    BY DEF Brought
  <2>2. \A any \in Pipes : more[s][any] = pieces[s][any]
    BY <2>1, ConcatEmptySeq
  <2>3. pieces[s] \in [Pipes -> Seq(Pieces)] /\ more[s] \in [Pipes -> Seq(Pieces)]
    OBVIOUS
  <2> DEFINE a == pieces[s]
             b == more[s]
  <2>4. a \in [Pipes -> Seq(Pieces)] /\ b \in [Pipes -> Seq(Pieces)] /\ \A any \in Pipes : b[any] = a[any]
    BY <2>2, <2>3
  <2> HIDE DEF a, b
  <2>5. a = b
    BY <2>4
  <2> QED
    BY <2>5 DEF a, b
<1>4. ready \in Honest(n) /\ ready.protocol \in Protocols
      /\ ready.protocol = IF source = attempt.source THEN attempt.protocol ELSE NewLines
  <2>1. ready \in Honest(n)
        /\ ready.protocol = IF source = attempt.source THEN attempt.protocol ELSE NewLines
    BY <1>1, ReadyHonest
  <2> HIDE DEF ready
  <2> QED
    BY <2>1 DEF Honest, Transfers
<1>5. /\ after \in Honest(n) /\ after.protocol = protocol /\ after.source = source
      /\ Len(after.shown) = Len(attempt.shown) + Reports(protocol.lines)
  BY TakeReadHonest
<1>6. BufferSize(sent) <= MaxLine
  OBVIOUS
<1> HIDE DEF ready, after
<1>7. FairIn(old) => Holds(ready.protocol, old)
  <2>1. CASE source = attempt.source
    BY <1>4, <2>1 DEF Follows
  <2>2. CASE source # attempt.source
    <3>1. source > attempt.source
      BY <1>1, <2>2
    <3>2. \A any \in Pipes : old[any] = <<>>
      BY <1>1, <3>1 DEF Follows
    <3>3. old["stdout"] = <<>> /\ old[Other("stdout")] = <<>> /\ "stdout" \in Pipes
      BY <3>2, OtherIs DEF Pipes
    <3> HIDE DEF old
    <3>4. /\ Tracks(NewLines, old["stdout"], Cardinality(Ends(old[Other("stdout")])))
          /\ Rest(old[Other("stdout")]) = <<>>
      BY <3>3, NewLinesAre
    <3>5. Holds(NewLines, old)
      BY <3>3, <3>4, Zenon DEF Holds
    <3> QED
      BY <1>4, <2>2, <3>5
  <2> QED
    BY <2>1, <2>2
<1> HIDE DEF sent, old, new, pipe
<1>8. ASSUME FairIn(new)
      PROVE  /\ FairIn(old) /\ Holds(protocol, new)
             /\ Reports(protocol.lines) + SentIn(old) = SentIn(new)
  <2> DEFINE p == ready.protocol
             q == Push(p, sent)
  <2>1. p \in Protocols /\ (FairIn(old) => Holds(p, old))
    BY <1>4, <1>7
  <2> HIDE DEF p
  <2>2. FairIn(old) /\ Holds(q, new) /\ Reports(q.lines) + SentIn(old) = SentIn(new)
    <3> HIDE DEF q, protocol, after, f, g
    <3>1. ReadOn(old, new, pipe, sent, p)
      BY <1>2, <1>6, <1>8, <1>13, <2>1, Zenon DEF ReadOn
    <3> QED
      BY <1>1, <1>2, <2>1, <3>1, PipeFollows, Zenon DEF q
  <2> QED
    BY <2>2 DEF p
<1>9. \A s \in 1 .. n : s > source => \A any \in Pipes : more[s][any] = <<>>
  <2> TAKE s \in 1 .. n
  <2> HAVE s > source
  <2>1. s > attempt.source /\ s # source
    <3> DEFINE x == attempt.source
    <3>1. x \in 1 .. n /\ source \in 1 .. n /\ x <= source
      BY <1>1
    <3> HIDE DEF x, source
    <3>2. s > x /\ s # source
      BY <3>1
    <3> QED
      BY <3>2 DEF x
  <2> QED
    BY <1>3, <2>1 DEF Follows
<1>10. ASSUME \A s \in 1 .. n : FairIn(more[s])
       PROVE  Len(after.shown) = SumOf(g)
  <2>1. FairIn(new)
    BY <1>1, <1>10 DEF new
  <2>2. FairIn(old) /\ Reports(protocol.lines) + SentIn(old) = SentIn(new)
    BY <1>8, <2>1
  <2>3. \A s \in 1 .. n : FairIn(pieces[s])
    BY <1>3, <1>10, <2>2 DEF old
  <2>4. Len(attempt.shown) = SumOf(f)
    BY <2>3 DEF Follows
  <2>5. f \in [1 .. n -> Nat] /\ g \in [1 .. n -> Nat]
    <3>1. ASSUME NEW both \in [Pipes -> Seq(Pieces)] PROVE SentIn(both) \in Nat
      <4>1. "stdout" \in Pipes
        BY DEF Pipes
      <4> DEFINE x == Reported(both["stdout"])
                 y == Reported(both[Other("stdout")])
      <4>2. x \in Nat /\ y \in Nat /\ SentIn(both) = x + y
        BY <4>1, BothAre
      <4> HIDE DEF x, y
      <4> QED
        BY <4>2
    <3> QED
      BY <3>1
  <2>6. f[source] = SentIn(old) /\ g[source] = SentIn(new)
    BY <1>1 DEF old, new
  <2>7. \A s \in 1 .. n : s # source => g[s] = f[s]
    BY <1>3
  <2>8. f \in [1 .. n -> Int] /\ g \in [1 .. n -> Int]
    BY <2>5
  <2>9. SumOf(f) \in Nat
    BY <2>5, SumIsNat
  <2>15. SentIn(old) \in Nat
    <3> HIDE DEF f
    <3> QED
      BY <1>1, <2>5, <2>6
  <2> HIDE DEF f, g
  <2>10. SumOf(g) = SumOf(f) - f[source] + g[source]
    BY <1>1, <2>7, <2>8, SumChanges
  <2>11. Reports(protocol.lines) \in Nat
    <3>1. protocol \in Protocols
      BY <1>1, <1>4, PushIs DEF sent
    <3>2. protocol.lines \in Seq(Lines)
      BY <3>1 DEF Protocols
    <3> QED
      BY <3>2, ReportsAre
  <2> DEFINE x == SumOf(f)
             y == SumOf(g)
             u == SentIn(old)
             v == SentIn(new)
             r == Reports(protocol.lines)
  <2>12. /\ x \in Nat /\ u \in Nat /\ r \in Nat /\ r + u = v /\ y = x - u + v
    BY <2>2, <2>6, <2>9, <2>10, <2>11, <2>15
  <2>13. Len(after.shown) = x + r
    BY <1>5, <2>4 DEF source, sent
  <2> HIDE DEF x, y, u, v, r
  <2>14. x + r = y
    BY <2>12
  <2> QED
    BY <2>13, <2>14 DEF y
<1> HIDE DEF source, protocol
<1>11. FairIn(more[source]) => Holds(protocol, more[source])
  BY <1>8 DEF new
<1>12. Follows(after, n, more)
  BY <1>5, <1>9, <1>10, <1>11 DEF Follows
<1> QED
  BY <1>12 DEF after

LEMMA TransferHonest ==
  ASSUME NEW transfer, IsTransfer(transfer)
  PROVE  Downloaded(transfer) \in Honest(transfer.expected)
<1> DEFINE N == Len(transfer.reads)
           A == Attempts(transfer)
<1>1. N \in 0 .. N
  BY DEF IsTransfer
<1>2. A \in [0 .. N -> Honest(transfer.expected)]
  BY AttemptsAre
<1> HIDE DEF A, N
<1>3. A[N] \in Honest(transfer.expected)
  BY <1>1, <1>2
<1> QED
  BY <1>3, Zenon DEF Downloaded, A, N

LEMMA TransferFollows ==
  ASSUME NEW transfer, IsTransfer(transfer), WellRead(transfer)
  PROVE  LET n == transfer.expected
         IN  Follows(Downloaded(transfer), n,
                     [s \in 1 .. n |-> [pipe \in Pipes |-> PiecesOf(transfer, s, pipe)]])
<1> DEFINE n == transfer.expected
           reads == transfer.reads
           N == Len(reads)
           A == Attempts(transfer)
           Q(s, pipe) == PiecesTo(transfer, s, pipe)
           P(k) == [s \in 1 .. n |-> [pipe \in Pipes |-> Q(s, pipe)[k]]]
           Good(k) == /\ Follows(A[k], n, P(k))
                      /\ A[k].source = IF k = 0 THEN 1 ELSE reads[k].source
           S == {k \in 0 .. N : Good(k)}
<1>1. n \in Nat \ {0} /\ N \in Nat /\ transfer.estimate \in Nat /\ InOrder(reads)
  BY DEF IsTransfer
<1>2. \A k \in 1 .. N : reads[k] \in Transferred(n)
  BY ElementOfSeq DEF IsTransfer
<1>3. /\ A \in [0 .. N -> Honest(n)] /\ A[0] = NewAttempt(n, transfer.estimate)
      /\ \A k \in 1 .. N : A[k] = TakeRead(A[k - 1], reads[k])
  BY AttemptsAre
<1>4. \A s \in 1 .. n, pipe \in Pipes :
         /\ Q(s, pipe) \in [0 .. N -> Seq(Pieces)] /\ Q(s, pipe)[0] = <<>>
         /\ \A k \in 1 .. N :
               Q(s, pipe)[k] = Q(s, pipe)[k - 1] \o Brought(reads[k], s, pipe)
  BY PiecesToAre
<1>5. \A k \in 1 .. N : BufferSize(reads[k].read) <= MaxLine
  BY DEF WellRead, ShortReads
<1>15. \A k \in 1 .. N, pipe \in Pipes :
          pipe # reads[k].stream => ~Open(Q(reads[k].source, pipe)[k - 1])
  BY Zenon DEF WellRead, Untorn
<1>6. \A k \in 1 .. N - 1 : reads[k].source <= reads[k + 1].source
  BY <1>1 DEF InOrder
<1>7. Downloaded(transfer) = A[N]
  BY Zenon DEF Downloaded
<1>8. P(N) = [s \in 1 .. n |-> [pipe \in Pipes |-> PiecesOf(transfer, s, pipe)]]
  BY Zenon DEF PiecesOf
<1> HIDE DEF A, Q, N, reads, n
<1>9. \A k \in 0 .. N : P(k) \in [1 .. n -> [Pipes -> Seq(Pieces)]]
  <2>1. \A k \in 0 .. N : \A s \in 1 .. n, pipe \in Pipes : Q(s, pipe)[k] \in Seq(Pieces)
    BY <1>4
  <2> QED
    BY <2>1
<1>10. 0 \in S
  <2>1. 0 \in 0 .. N /\ 1 \in 1 .. n
    BY <1>1
  <2>2. A[0].source = 1 /\ A[0].protocol = NewLines /\ A[0].shown = <<>>
    BY <1>1, <1>3, NewIsHonest
  <2>3. \A s \in 1 .. n, pipe \in Pipes : P(0)[s][pipe] = <<>>
    BY <1>4
  <2>4. Reported(<<>>) = 0
    <3>1. {i \in Ends(<<>>) : IsReport(LineTo(<<>>, i))} = {}
      BY DEF Ends
    <3> QED
      BY <3>1, FS_EmptySet DEF Reported
  <2> DEFINE f == [s \in 1 .. n |-> SentIn(P(0)[s])]
  <2>5. \A s \in 1 .. n : f[s] = 0
    <3> HIDE DEF P
    <3> QED
      BY <2>3, <2>4 DEF SentIn, Pipes
  <2>6. f \in [1 .. n -> {0}]
    <3>1. DOMAIN f = 1 .. n
      OBVIOUS
    <3> QED
      BY <2>5
  <2> HIDE DEF f
  <2>7. SumOf(f) = 0
    BY <1>1, <2>6, SumOfZeros
  <2>8. Len(A[0].shown) = SumOf(f)
    BY <2>2, <2>7
  <2>9. Holds(A[0].protocol, P(0)[A[0].source])
    <3> DEFINE both == P(0)[1]
    <3>1. both["stdout"] = <<>> /\ both[Other("stdout")] = <<>> /\ "stdout" \in Pipes
      <4> HIDE DEF P
      <4> QED
        BY <2>1, <2>3, OtherIs DEF Pipes
    <3> HIDE DEF both
    <3>2. /\ Tracks(NewLines, both["stdout"], Cardinality(Ends(both[Other("stdout")])))
          /\ Rest(both[Other("stdout")]) = <<>>
      BY <3>1, NewLinesAre
    <3>3. Holds(NewLines, both)
      BY <3>1, <3>2, Zenon DEF Holds
    <3> QED
      BY <2>2, <3>3, Zenon DEF both
  <2> HIDE DEF P
  <2>10. Follows(A[0], n, P(0))
    BY <2>3, <2>8, <2>9 DEF Follows, f
  <2> QED
    BY <2>1, <2>2, <2>10
<1>11. ASSUME NEW k \in 0 .. N - 1, k \in S PROVE k + 1 \in S
  <2>1. k \in 0 .. N /\ k + 1 \in 0 .. N /\ k + 1 \in 1 .. N /\ (k + 1) - 1 = k /\ k + 1 # 0
    BY <1>1
  <2> DEFINE a == A[k]
             b == A[k + 1]
             r == reads[k + 1]
             p == P(k)
             q == P(k + 1)
  <2>2. /\ a \in Honest(n) /\ r \in Transferred(n) /\ b = TakeRead(a, r)
        /\ BufferSize(r.read) <= MaxLine
    BY <1>2, <1>3, <1>5, <2>1
  <2>3. Good(k)
    BY <1>11
  <2>4. a.source <= r.source
    <3>1. r.source \in 1 .. n
      <4> HIDE DEF r
      <4> QED
        BY <2>2 DEF Transferred
    <3>2. CASE k = 0
      BY <1>1, <2>3, <3>1, <3>2
    <3>3. CASE k # 0
      <4>1. k \in 1 .. N - 1
        BY <2>1, <3>3
      <4> QED
        BY <1>6, <2>3, <3>3, <4>1
    <3> QED
      BY <3>2, <3>3
  <2>5. /\ p \in [1 .. n -> [Pipes -> Seq(Pieces)]]
        /\ q \in [1 .. n -> [Pipes -> Seq(Pieces)]]
    BY <1>9, <2>1
  <2>6. \A s \in 1 .. n, pipe \in Pipes : q[s][pipe] = p[s][pipe] \o Brought(r, s, pipe)
    BY <1>4, <2>1
  <2>11. Rest(p[r.source][Other(r.stream)]) = <<>>
    <3>1. r.source \in 1 .. n /\ r.stream \in Pipes
      <4> HIDE DEF r
      <4> QED
        BY <2>2 DEF Transferred
    <3>2. Other(r.stream) \in Pipes /\ Other(r.stream) # r.stream
      BY <3>1, OtherIs
    <3>3. ~Open(Q(r.source, Other(r.stream))[k])
      BY <1>15, <2>1, <3>2, Zenon
    <3>4. p[r.source][Other(r.stream)] = Q(r.source, Other(r.stream))[k]
      BY <3>1, <3>2
    <3> QED
      BY <3>3, <3>4, Zenon DEF Open, Rest
  <2>7. Follows(a, n, p)
    BY <2>3
  <2>8. b.source = r.source
    <3> HIDE DEF a, b, r
    <3> QED
      BY <1>1, <2>2, TakeReadHonest
  <2> HIDE DEF P, a, r, p, q
  <2>9. Follows(b, n, q)
    <3> HIDE DEF b
    <3>1. Follows(TakeRead(a, r), n, q)
      BY <1>1, <2>2, <2>4, <2>5, <2>6, <2>7, <2>11, ReadFollows
    <3> QED
      BY <2>2, <3>1
  <2>10. Good(k + 1)
    BY <2>1, <2>8, <2>9 DEF q, r
  <2> HIDE DEF Good
  <2> QED
    BY <2>1, <2>10
<1>12. 0 .. N \subseteq S
  <2> HIDE DEF S
  <2> QED
    BY <1>1, <1>10, <1>11, KeptAlong
<1> HIDE DEF P
<1>13. N \in S
  <2> HIDE DEF S
  <2> QED
    BY <1>1, <1>12
<1>14. Follows(A[N], n, P(N))
  BY <1>13
<1> QED
  BY <1>7, <1>8, <1>14, Zenon DEF n

LEMMA DownloadIsHonest ==
  ASSUME NEW transfer, IsTransfer(transfer)
  PROVE  HonestDownload(Downloaded(transfer), transfer)
<1> DEFINE n == transfer.expected
           attempt == Downloaded(transfer)
           shown == attempt.shown
           pieces == [s \in 1 .. n |-> [pipe \in Pipes |-> PiecesOf(transfer, s, pipe)]]
<1>1. attempt \in Honest(n)
  BY TransferHonest
<1>2. WellRead(transfer) => Follows(attempt, n, pieces)
  BY TransferFollows
<1> HIDE DEF attempt, n
<1>3. /\ attempt.source \in 1 .. n /\ shown \in Seq(Progresses)
      /\ NeverGoesBack(shown) /\ MedianOfThree(shown, Estimated(attempt))
      /\ CompleteAtLast(shown) => AllSourcesArrived(attempt.aggregator.sources)
      /\ attempt.aggregator.expected = n
  BY <1>1 DEF Honest, Transfers, HonestSoFar, Timed, Aggregators
<1>4. \A s \in 1 .. n :
         /\ FairIn(pieces[s]) <=> ReadableOf(transfer, s)
         /\ SentIn(pieces[s]) = ReportedOf(transfer, s)
  <2> TAKE s \in 1 .. n
  <2>1. \A pipe \in Pipes : pieces[s][pipe] = PiecesOf(transfer, s, pipe)
    OBVIOUS
  <2>2. "stdout" \in Pipes /\ "stderr" \in Pipes
    BY DEF Pipes
  <2> HIDE DEF pieces
  <2> QED
    BY <2>1, <2>2, Zenon DEF FairIn, LinesIn, SentIn, ReadableOf, EndsOf, ReportedOf
<1> HIDE DEF pieces, shown
<1>5. [s \in 1 .. n |-> SentIn(pieces[s])] = [s \in 1 .. n |-> ReportedOf(transfer, s)]
  BY <1>4
<1>6. WellRead(transfer) /\ (\A s \in 1 .. n : ReadableOf(transfer, s)) =>
         Len(shown) = SumOf([s \in 1 .. n |-> ReportedOf(transfer, s)])
  BY <1>2, <1>4, <1>5, Zenon DEF Follows, shown
<1>7. HonestShown(shown, attempt.aggregator.sources, transfer)
  BY <1>3, <1>6, Zenon DEF HonestShown, n
<1>8. MedianOfThree(shown, Estimates(shown, attempt.told, n))
  BY <1>3, Zenon DEF Estimated, shown
<1>9. WellRead(transfer) /\ ReadableOf(transfer, attempt.source) =>
         attempt.protocol.invalid = "none"
  BY <1>2, <1>3, <1>4, Zenon DEF Follows, Holds, Tracks
<1>10. attempt.protocol.invalid # "none" =>
          \A process \in {"succeeded", "failed", "cancelled"}, control \in {"run", "pause"} :
              ToolOutcome(attempt.protocol, process, control) = "protocol"
  BY Zenon DEF ToolOutcome
<1>11. HonestDownload(attempt, transfer)
  BY <1>7, <1>8, <1>9, <1>10, Zenon DEF HonestDownload, shown, n
<1> QED
  BY <1>11 DEF attempt

-----------------------------------------------------------------------------
(* A conversion: what it has reached, and shown, does not go back.           *)
Converters ==
    [source : {1}, protocol : Protocols, aggregator : {NewAggregator(1, 0)}, reached : Nat,
     shown : Seq(Arrived), told : {<<>>}]
SteadySoFar(attempt) ==
    /\ attempt.reached <= Duration
    /\ \A i \in 1 .. Len(attempt.shown) :
          /\ attempt.shown[i].completed <= attempt.reached
          /\ attempt.shown[i].percent = Percent(attempt.shown[i].completed, Duration)
    /\ \A i, j \in 1 .. Len(attempt.shown) :
          i < j => attempt.shown[i].completed <= attempt.shown[j].completed
Steady == {attempt \in Converters : SteadySoFar(attempt)}
(* The reads of a conversion.                                                *)
Heard == [stream : Pipes, read : Seq(Pieces)]
IsConversion(transfer) == transfer.reads \in Seq(Heard)

LEMMA DurationIs == Duration \in Nat /\ Duration \in Figures
  BY DEF Duration, Figures

LEMMA NewIsSteady == NewAttempt(1, 0) \in Steady
<1> DEFINE attempt == NewAttempt(1, 0)
           a == NewAggregator(1, 0)
<1>1. <<>> \in Seq(Arrived) /\ Len(<<>>) = 0
  OBVIOUS
<1>2. attempt = [source |-> 1, protocol |-> NewLines, aggregator |-> a, reached |-> 0,
                 shown |-> <<>>, told |-> <<>>]
  BY DEF NewAttempt
<1> HIDE DEF attempt, a
<1>3. attempt \in [source : {1}, protocol : Protocols, aggregator : {a}, reached : Nat,
                   shown : Seq(Arrived), told : {<<>>}]
  BY <1>1, <1>2, NewLinesAre
<1>4. SteadySoFar(attempt)
  BY <1>1, <1>2, DurationIs DEF SteadySoFar
<1> QED
  BY <1>3, <1>4 DEF Steady, Converters, a, attempt

LEMMA ReachedIs ==
  ASSUME NEW reached \in Nat, NEW time \in Nat, reached <= Duration
  PROVE  /\ ParseFfmpeg(reached, time, Duration) \in Nat
         /\ reached <= ParseFfmpeg(reached, time, Duration)
         /\ ParseFfmpeg(reached, time, Duration) <= Duration
  BY DurationIs DEF ParseFfmpeg, Higher, Lower

LEMMA FfmpegLineSteady ==
  ASSUME NEW attempt \in Steady, NEW line \in Lines
  PROVE  ApplyFfmpegLine(Duration, attempt, line) \in Steady
<1> DEFINE reached == ParseFfmpeg(attempt.reached, line[1].report.completed, Duration)
           told == MakeProgress("converting", reached, Duration, Unknown, Unknown)
           list == attempt.shown
           more == Append(list, told)
           k    == Len(list)
           after == [attempt EXCEPT !.reached = reached, !.shown = Append(@, told)]
<1>1. CASE ~IsReport(line)
  <2>1. ApplyFfmpegLine(Duration, attempt, line) = attempt
    BY <1>1, Zenon DEF ApplyFfmpegLine
  <2> QED
    BY <2>1
<1>2. CASE IsReport(line)
  <2>1. line[1].report.completed \in Nat
    <3> DEFINE c == line[1].report.completed
    <3>1. line[1] \in Pieces
      BY DEF Lines
    <3>2. line[1].report \in Told
      <4> DEFINE p == line[1]
      <4> HIDE DEF p
      <4> QED
        BY <3>1 DEF Pieces, p
    <3>3. c \in Figures
      <4> DEFINE r == line[1].report
      <4> HIDE DEF r
      <4>1. r.completed \in Figures
        BY <3>2 DEF Told, r
      <4> QED
        BY <4>1 DEF r
    <3>4. c # Unknown
      BY <1>2 DEF IsReport
    <3> HIDE DEF c
    <3>5. c \in Nat
      BY <3>3, <3>4 DEF Figures
    <3> QED
      BY <3>5 DEF c
  <2>2. attempt \in Converters /\ SteadySoFar(attempt)
    BY DEF Steady
  <2>3. attempt.reached \in Nat /\ attempt.reached <= Duration /\ list \in Seq(Arrived)
    BY <2>2 DEF Converters, SteadySoFar
  <2>4. reached \in Nat /\ attempt.reached <= reached /\ reached <= Duration
    BY <2>1, <2>3, ReachedIs
  <2> HIDE DEF reached
  <2>5. Percent(reached, Duration) \in Int
    BY <2>4, DurationIs, PercentIs
  <2>6. told \in Arrived /\ told.completed = reached /\ told.percent = Percent(reached, Duration)
    BY <2>4, <2>5, DurationIs DEF MakeProgress, Arrived, Figures
  <2> HIDE DEF told
  <2>7. /\ more \in Seq(Arrived) /\ Len(more) = k + 1 /\ more[k + 1] = told
        /\ \A i \in 1 .. k : more[i] = list[i]
    BY <2>3, <2>6, AppendIs
  <2>8. /\ after \in [source : {1}, protocol : Protocols, aggregator : {NewAggregator(1, 0)},
                      reached : Nat, shown : {more}, told : {<<>>}]
        /\ after.shown = more /\ after.reached = reached
    BY <2>2, <2>4 DEF Converters
  <2>9. ApplyFfmpegLine(Duration, attempt, line) = after
    BY <1>2, Zenon DEF ApplyFfmpegLine, reached, told
  <2>10. k \in Nat
    BY <2>3
  <2>11. \A i \in 1 .. k : list[i].completed \in Nat
    <3>1. \A i \in 1 .. k : list[i] \in Arrived
      BY <2>3, ElementOfSeq
    <3> HIDE DEF list, k
    <3> QED
      BY <3>1 DEF Arrived
  <2>12. /\ \A i \in 1 .. k : /\ list[i].completed <= attempt.reached
                              /\ list[i].percent = Percent(list[i].completed, Duration)
         /\ \A i, j \in 1 .. k : i < j => list[i].completed <= list[j].completed
    BY <2>2 DEF SteadySoFar
  <2> HIDE DEF after, more, list, k
  <2>13. \A i \in 1 .. k + 1 : i = k + 1 \/ i \in 1 .. k
    BY <2>10
  <2>14. \A i \in 1 .. k : list[i].completed <= reached
    <3> TAKE i \in 1 .. k
    <3>1. list[i].completed \in Nat /\ list[i].completed <= attempt.reached
      BY <2>11, <2>12
    <3> QED
      BY <2>3, <2>4, <3>1
  <2>15. ASSUME NEW i \in 1 .. k + 1
         PROVE  /\ more[i].completed <= reached
                /\ more[i].percent = Percent(more[i].completed, Duration)
    <3>1. CASE i = k + 1
      BY <2>4, <2>6, <2>7, <3>1
    <3>2. CASE i \in 1 .. k
      BY <2>7, <2>12, <2>14, <3>2
    <3> QED
      BY <2>13, <3>1, <3>2
  <2>16. ASSUME NEW i \in 1 .. k + 1, NEW j \in 1 .. k + 1, i < j
         PROVE  more[i].completed <= more[j].completed
    <3>1. i \in 1 .. k
      BY <2>10, <2>16
    <3>2. CASE j = k + 1
      BY <2>6, <2>7, <2>14, <3>1, <3>2
    <3>3. CASE j \in 1 .. k
      BY <2>7, <2>12, <2>16, <3>1, <3>3
    <3> QED
      BY <2>13, <3>2, <3>3
  <2>17. SteadySoFar(after)
    BY <2>4, <2>7, <2>8, <2>15, <2>16 DEF SteadySoFar
  <2>18. after \in Converters
    BY <2>7, <2>8 DEF Converters
  <2> QED
    BY <2>9, <2>17, <2>18 DEF Steady
<1> QED
  BY <1>1, <1>2

LEMMA AppliedFfmpegIs ==
  ASSUME NEW attempt \in Steady, NEW lines \in Seq(Lines)
  PROVE  LET after == AppliedFfmpeg(Duration, attempt, lines)
         IN  /\ after \in [0 .. Len(lines) -> Steady] /\ after[0] = attempt
             /\ \A k \in 1 .. Len(lines) : after[k] = ApplyFfmpegLine(Duration, after[k - 1], lines[k])
<1> DEFINE N == Len(lines)
           B == attempt
           step == [k \in 1 .. N |-> [p \in Steady |-> ApplyFfmpegLine(Duration, p, lines[k])]]
           Step(g, k) == IF k = 0 THEN B ELSE ApplyFfmpegLine(Duration, g[k - 1], lines[k])
           after == AppliedFfmpeg(Duration, attempt, lines)
<1>1. N \in Nat /\ \A k \in 1 .. N : lines[k] \in Lines
  OBVIOUS
<1>2. B \in Steady
  OBVIOUS
<1> HIDE DEF N, B
<1>3. ASSUME NEW k \in 1 .. N, NEW p \in Steady PROVE ApplyFfmpegLine(Duration, p, lines[k]) \in Steady
  BY <1>1, FfmpegLineSteady
<1>4. Steps(Steady, B, N, step)
  BY <1>1, <1>2, <1>3 DEF Steps
<1>5. \A k \in 1 .. N : \A p \in Steady : step[k][p] = ApplyFfmpegLine(Duration, p, lines[k])
  OBVIOUS
<1> HIDE DEF step
<1>6. PICK f : Repeats(f, Steady, B, N, step)
  BY <1>4, RecursionExists, Zenon
<1>7. f \in [0 .. N -> Steady] /\ f[0] = B /\ \A k \in 1 .. N : f[k] = step[k][f[k - 1]]
  BY <1>6 DEF Repeats
<1>8. \A k \in 0 .. N : f[k] = Step(f, k)
  <2>1. \A k \in 1 .. N : k - 1 \in 0 .. N
    BY <1>1
  <2>2. \A k \in 1 .. N : f[k - 1] \in Steady
    BY <1>7, <2>1
  <2>3. \A k \in 1 .. N : f[k] = ApplyFfmpegLine(Duration, f[k - 1], lines[k])
    BY <1>5, <1>7, <2>2, Zenon
  <2>4. \A k \in 0 .. N : k = 0 \/ k \in 1 .. N
    BY <1>1
  <2> QED
    BY <1>7, <2>3, <2>4, Zenon
<1>9. f = [k \in 0 .. N |-> Step(f, k)]
  <2> HIDE DEF Step
  <2> QED
    BY <1>7, <1>8
<1>10. after = CHOOSE g : g = [k \in 0 .. N |-> Step(g, k)]
  BY Zenon DEF AppliedFfmpeg, N, B
<1>11. after = [k \in 0 .. N |-> Step(after, k)]
  <2> HIDE DEF Step, after
  <2> QED
    BY <1>9, <1>10
<1> HIDE DEF after
<1>12. \A k \in 0 .. N : after[k] = Step(after, k)
  <2> HIDE DEF Step
  <2> QED
    BY <1>11, Zenon
<1>13. after = [k \in 0 .. N |-> after[k]]
  <2> HIDE DEF Step
  <2> QED
    BY <1>11, <1>12
<1>14. after[0] = B /\ \A k \in 1 .. N : after[k] = ApplyFfmpegLine(Duration, after[k - 1], lines[k])
  <2>1. 0 \in 0 .. N /\ \A k \in 1 .. N : k \in 0 .. N /\ k # 0
    BY <1>1
  <2> QED
    BY <1>12, <2>1, Zenon
<1>15. after = [k \in 0 .. N |-> IF k = 0 THEN B ELSE after[k]]
  <2>1. \A k \in 0 .. N : after[k] = IF k = 0 THEN B ELSE after[k]
    BY <1>14, Zenon
  <2> QED
    BY <1>13, <2>1
<1>16. \A k \in 1 .. N : after[k - 1] \in Steady => after[k] = step[k][after[k - 1]]
  BY <1>5, <1>14, Zenon
<1>17. Repeats(after, Steady, B, N, step)
  BY <1>4, <1>15, <1>16, RecursionIs, Zenon
<1> QED
  BY <1>14, <1>17 DEF after, N, B, Repeats

LEMMA FfmpegEventSteady ==
  ASSUME NEW attempt \in Steady, NEW read \in Seq(Pieces), NEW stream
  PROVE  ApplyFfmpegEvent(attempt, Duration, stream, read) \in Steady
<1> DEFINE protocol == Push(attempt.protocol, read)
           heard == [attempt EXCEPT !.protocol = protocol]
           lines == protocol.lines
<1>1. attempt.protocol \in Protocols
  BY DEF Steady, Converters
<1>2. protocol \in Protocols
  BY <1>1, PushIs
<1>3. lines \in Seq(Lines) /\ Len(lines) \in 0 .. Len(lines)
  <2>1. lines \in Seq(Lines)
    BY <1>2 DEF Protocols
  <2> HIDE DEF lines
  <2> QED
    BY <2>1
<1> HIDE DEF protocol
<1>4. heard \in Converters /\ heard.reached = attempt.reached /\ heard.shown = attempt.shown
  BY <1>2 DEF Steady, Converters
<1> HIDE DEF heard
<1>5. heard \in Steady
  BY <1>4 DEF Steady, SteadySoFar
<1> HIDE DEF lines
<1>6. AppliedFfmpeg(Duration, heard, lines) \in [0 .. Len(lines) -> Steady]
  BY <1>3, <1>5, AppliedFfmpegIs
<1>7. AppliedFfmpeg(Duration, heard, lines)[Len(lines)] \in Steady
  BY <1>3, <1>6
<1>8. ApplyFfmpegEvent(attempt, Duration, stream, read)
        = IF stream # "stdout" THEN attempt ELSE AppliedFfmpeg(Duration, heard, lines)[Len(lines)]
  BY Zenon DEF ApplyFfmpegEvent, heard, lines, protocol
<1> QED
  BY <1>7, <1>8, Zenon

LEMMA ConversionsAre ==
  ASSUME NEW transfer, IsConversion(transfer)
  PROVE  LET after == Conversions(transfer)
         IN  /\ after \in [0 .. Len(transfer.reads) -> Steady] /\ after[0] = NewAttempt(1, 0)
             /\ \A k \in 1 .. Len(transfer.reads) : after[k] = ApplyFfmpegEvent(after[k - 1], Duration, transfer.reads[k].stream, transfer.reads[k].read)
<1> DEFINE N == Len(transfer.reads)
           B == NewAttempt(1, 0)
           step == [k \in 1 .. N |-> [p \in Steady |-> ApplyFfmpegEvent(p, Duration, transfer.reads[k].stream, transfer.reads[k].read)]]
           Step(g, k) == IF k = 0 THEN B ELSE ApplyFfmpegEvent(g[k - 1], Duration, transfer.reads[k].stream, transfer.reads[k].read)
           after == Conversions(transfer)
<1>1. N \in Nat /\ \A k \in 1 .. N : transfer.reads[k] \in Heard
  BY DEF IsConversion
<1>2. B \in Steady
  BY NewIsSteady
<1> HIDE DEF N, B
<1>3. ASSUME NEW k \in 1 .. N, NEW p \in Steady PROVE ApplyFfmpegEvent(p, Duration, transfer.reads[k].stream, transfer.reads[k].read) \in Steady
  <2>1. transfer.reads[k] \in Heard
    BY <1>1
  <2>2. transfer.reads[k].read \in Seq(Pieces)
    <3> DEFINE r == transfer.reads[k]
    <3> HIDE DEF r
    <3> QED
      BY <2>1 DEF Heard, r
  <2> QED
    BY <2>2, FfmpegEventSteady
<1>4. Steps(Steady, B, N, step)
  BY <1>1, <1>2, <1>3 DEF Steps
<1>5. \A k \in 1 .. N : \A p \in Steady : step[k][p] = ApplyFfmpegEvent(p, Duration, transfer.reads[k].stream, transfer.reads[k].read)
  OBVIOUS
<1> HIDE DEF step
<1>6. PICK f : Repeats(f, Steady, B, N, step)
  BY <1>4, RecursionExists, Zenon
<1>7. f \in [0 .. N -> Steady] /\ f[0] = B /\ \A k \in 1 .. N : f[k] = step[k][f[k - 1]]
  BY <1>6 DEF Repeats
<1>8. \A k \in 0 .. N : f[k] = Step(f, k)
  <2>1. \A k \in 1 .. N : k - 1 \in 0 .. N
    BY <1>1
  <2>2. \A k \in 1 .. N : f[k - 1] \in Steady
    BY <1>7, <2>1
  <2>3. \A k \in 1 .. N : f[k] = ApplyFfmpegEvent(f[k - 1], Duration, transfer.reads[k].stream, transfer.reads[k].read)
    BY <1>5, <1>7, <2>2, Zenon
  <2>4. \A k \in 0 .. N : k = 0 \/ k \in 1 .. N
    BY <1>1
  <2> QED
    BY <1>7, <2>3, <2>4, Zenon
<1>9. f = [k \in 0 .. N |-> Step(f, k)]
  <2> HIDE DEF Step
  <2> QED
    BY <1>7, <1>8
<1>10. after = CHOOSE g : g = [k \in 0 .. N |-> Step(g, k)]
  BY Zenon DEF Conversions, N, B
<1>11. after = [k \in 0 .. N |-> Step(after, k)]
  <2> HIDE DEF Step, after
  <2> QED
    BY <1>9, <1>10
<1> HIDE DEF after
<1>12. \A k \in 0 .. N : after[k] = Step(after, k)
  <2> HIDE DEF Step
  <2> QED
    BY <1>11, Zenon
<1>13. after = [k \in 0 .. N |-> after[k]]
  <2> HIDE DEF Step
  <2> QED
    BY <1>11, <1>12
<1>14. after[0] = B /\ \A k \in 1 .. N : after[k] = ApplyFfmpegEvent(after[k - 1], Duration, transfer.reads[k].stream, transfer.reads[k].read)
  <2>1. 0 \in 0 .. N /\ \A k \in 1 .. N : k \in 0 .. N /\ k # 0
    BY <1>1
  <2> QED
    BY <1>12, <2>1, Zenon
<1>15. after = [k \in 0 .. N |-> IF k = 0 THEN B ELSE after[k]]
  <2>1. \A k \in 0 .. N : after[k] = IF k = 0 THEN B ELSE after[k]
    BY <1>14, Zenon
  <2> QED
    BY <1>13, <2>1
<1>16. \A k \in 1 .. N : after[k - 1] \in Steady => after[k] = step[k][after[k - 1]]
  BY <1>5, <1>14, Zenon
<1>17. Repeats(after, Steady, B, N, step)
  BY <1>4, <1>15, <1>16, RecursionIs, Zenon
<1> QED
  BY <1>14, <1>17 DEF after, N, B, Repeats

LEMMA ConversionIsHonest ==
  ASSUME NEW transfer, IsConversion(transfer)
  PROVE  HonestConversion(ConvertedSoFar(transfer).shown)
<1> DEFINE N == Len(transfer.reads)
           A == Conversions(transfer)
           attempt == ConvertedSoFar(transfer)
           shown == attempt.shown
<1>1. N \in 0 .. N
  BY DEF IsConversion
<1>2. A \in [0 .. N -> Steady]
  BY ConversionsAre
<1> HIDE DEF A, N
<1>3. A[N] \in Steady
  BY <1>1, <1>2
<1>4. attempt = A[N]
  BY Zenon DEF ConvertedSoFar, A, N
<1> HIDE DEF attempt
<1>5. attempt \in Converters /\ SteadySoFar(attempt)
  BY <1>3, <1>4 DEF Steady
<1>6. attempt.reached \in Nat /\ attempt.reached <= Duration /\ shown \in Seq(Arrived)
  BY <1>5 DEF Converters, SteadySoFar
<1>7. /\ \A i \in 1 .. Len(shown) : /\ shown[i].completed <= attempt.reached
                                    /\ shown[i].percent = Percent(shown[i].completed, Duration)
      /\ \A i, j \in 1 .. Len(shown) : i < j => shown[i].completed <= shown[j].completed
  BY <1>5 DEF SteadySoFar
<1> HIDE DEF shown
<1>8. DOMAIN shown = 1 .. Len(shown)
  BY <1>6, LenProperties
<1>9. \A i \in 1 .. Len(shown) : shown[i].completed \in Nat
  <2>1. \A i \in 1 .. Len(shown) : shown[i] \in Arrived
    BY <1>6, ElementOfSeq
  <2> QED
    BY <2>1 DEF Arrived
<1>10. ASSUME NEW i \in 1 .. Len(shown)
       PROVE  shown[i].completed <= Duration /\ shown[i].percent <= Whole
  <2>1. shown[i].completed \in Nat /\ shown[i].completed <= attempt.reached
        /\ shown[i].percent = Percent(shown[i].completed, Duration)
    BY <1>7, <1>9
  <2>2. Percent(shown[i].completed, Duration) <= Whole
    <3> DEFINE c == shown[i].completed
    <3>1. c \in Nat /\ Duration \in Int
      BY <2>1, DurationIs
    <3> HIDE DEF c
    <3>2. Percent(c, Duration) <= Whole
      BY <3>1, PercentIs
    <3> QED
      BY <3>2 DEF c
  <2> QED
    BY <1>6, <2>1, <2>2, DurationIs
<1>11. ASSUME NEW i \in 1 .. Len(shown), NEW j \in 1 .. Len(shown), i < j
       PROVE  shown[i].percent <= shown[j].percent
  <2>1. shown[i].completed \in Nat /\ shown[j].completed \in Nat
        /\ shown[i].completed <= shown[j].completed
    BY <1>7, <1>9, <1>11
  <2>2. Percent(shown[i].completed, Duration) <= Percent(shown[j].completed, Duration)
    <3> DEFINE c == shown[i].completed
               d == shown[j].completed
    <3>1. c \in Nat /\ d \in Nat /\ c <= d /\ Duration \in Int
      BY <2>1, DurationIs
    <3> HIDE DEF c, d
    <3>2. Percent(c, Duration) <= Percent(d, Duration)
      BY <3>1, PercentMonotone
    <3> QED
      BY <3>2 DEF c, d
  <2> QED
    BY <1>7, <2>2
<1>12. HonestConversion(shown)
  BY <1>8, <1>10, <1>11 DEF HonestConversion, NeverGoesBack
<1> QED
  BY <1>12 DEF shown, attempt

-----------------------------------------------------------------------------
(* What is asked about progress: a transfer or a conversion, however long.   *)
AskedReads ==
    /\ probe.about = "download" => IsTransfer(probe)
    /\ probe.about = "conversion" => IsConversion(probe)

(* Whatever the sources of a transfer send on both pipes, in reads of any    *)
(* size, number and order, what is shown never goes back, says complete only *)
(* when every source has told its size and all of it has arrived, and shows  *)
(* as the time that is left the median of three estimates in a row; the      *)
(* readable records of both pipes are all taken when no read is longer than  *)
(* one line may be and none comes while a line of the other pipe is open;    *)
(* and a conversion never goes back or beyond its end (progress.rs:29, :97,  *)
(* service.rs:1406).                                                         *)
THEOREM ProgressIsAlwaysHonest ==
  ASSUME AskedReads
  PROVE  ProgressIsHonest
<1>1. probe.about = "download" => HonestDownload(Downloaded(probe), probe)
  BY DownloadIsHonest DEF AskedReads
<1>2. probe.about = "conversion" => HonestConversion(ConvertedSoFar(probe).shown)
  BY ConversionIsHonest DEF AskedReads
<1> QED
  BY <1>1, <1>2, Zenon DEF ProgressIsHonest

(* What the probes of a run ask is such a question.                          *)
AskedProgress ==
    /\ AskedReads /\ "about" \in DOMAIN probe
    /\ probe.about = "download" => {"expected", "estimate", "reads"} \subseteq DOMAIN probe
    /\ probe.about = "conversion" => "reads" \in DOMAIN probe

LEMMA ReportIs ==
  ASSUME NEW status \in {"downloading", "finished", "other"}, NEW completed \in Figures,
         NEW exact \in Figures, NEW estimate \in Figures, NEW speed \in Figures, NEW eta \in Figures
  PROVE  Report(status, completed, exact, estimate, speed, eta) \in Told
  BY DEF Report, Told

LEMMA PieceIs ==
  ASSUME NEW size \in Nat, NEW ends \in BOOLEAN,
         NEW holds \in {"report", "start", "rest", "noise", "bad"}, NEW report \in Told
  PROVE  Piece(size, ends, holds, report) \in Pieces
  BY DEF Piece, Pieces

LEMMA ReadsOfRun ==
  ReportReads \subseteq Seq(Pieces) /\ OtherReads \subseteq Seq(Pieces) /\ BigRead \in Seq(Pieces)
<1> DEFINE a == Report("downloading", 100, Unknown, 1000, Unknown, 9)
           b == Report("downloading", 2400, 2500, Unknown, 0, Unknown)
           c == Report("downloading", 40, Unknown, Unknown, 5, 3)
           d == Report("finished", 2499, 2500, Unknown, 100, Unknown)
           e == Report("finished", 2500, 2500, Unknown, Unknown, Unknown)
<1>1. /\ Half \in Told /\ Quiet \in Told /\ a \in Told /\ b \in Told /\ c \in Told /\ d \in Told
      /\ e \in Told
  <2>1. a \in Told
    BY DEF a, Report, Told, Figures, Unknown
  <2>2. b \in Told
    BY DEF b, Report, Told, Figures, Unknown
  <2>3. c \in Told
    BY DEF c, Report, Told, Figures, Unknown
  <2>4. d \in Told
    BY DEF d, Report, Told, Figures, Unknown
  <2>5. e \in Told
    BY DEF e, Report, Told, Figures, Unknown
  <2>6. Half \in Told
    BY DEF Half, Report, Told, Figures, Unknown
  <2>7. Quiet \in Told
    BY DEF Quiet, Report, Told, Figures, Unknown
  <2> QED
    BY <2>1, <2>2, <2>3, <2>4, <2>5, <2>6, <2>7
<1> HIDE DEF a, b, c, d, e
<1>2. \A report \in Told : Telling(report) \in Pieces
  BY PieceIs DEF Telling
<1> DEFINE start == Piece(2, FALSE, "start", Half)
           rest  == Piece(1, TRUE, "rest", Quiet)
           noise == Piece(4, TRUE, "noise", Quiet)
           more  == Piece(2, FALSE, "noise", Quiet)
           long  == Piece(8, TRUE, "noise", Quiet)
           bad   == Piece(2, TRUE, "bad", Quiet)
<1>3. /\ start \in Pieces /\ rest \in Pieces /\ noise \in Pieces /\ bad \in Pieces
      /\ more \in Pieces /\ long \in Pieces
  BY <1>1, PieceIs
<1> HIDE DEF start, rest, noise, more, long, bad
<1> DEFINE one == {<<Telling(r)>> : r \in {Half, a, b, c, d}}
           two == {<<Telling(Half), Telling(e)>>, <<start>>, <<rest>>}
           three == {<<noise>>, <<more>>, <<bad>>, <<long, long>>}
<1>4. ReportReads = one \union two /\ OtherReads = three /\ BigRead = <<long, long>>
  BY DEF ReportReads, OtherReads, BigRead, a, b, c, d, e, start, rest, noise, more, long, bad
<1>5. one \subseteq Seq(Pieces)
  <2>1. \A r \in {Half, a, b, c, d} : <<Telling(r)>> \in Seq(Pieces)
    BY <1>1, <1>2
  <2> QED
    BY <2>1, Zenon
<1>6. /\ two \subseteq Seq(Pieces) /\ three \subseteq Seq(Pieces)
      /\ <<long, long>> \in Seq(Pieces)
  BY <1>1, <1>2, <1>3
<1> HIDE DEF one, two, three
<1> QED
  BY <1>4, <1>5, <1>6

LEMMA ConvertedOfRun ==
  ASSUME NEW time \in Nat
  PROVE  Converted(time) \in Seq(Pieces)
<1> DEFINE report == Report("downloading", time, Unknown, Unknown, Unknown, Unknown)
<1>1. report \in Told
  BY ReportIs DEF Figures
<1> HIDE DEF report
<1>2. Telling(report) \in Pieces
  BY <1>1, PieceIs DEF Telling
<1>3. Converted(time) = <<Telling(report)>>
  BY DEF Converted, report
<1> QED
  BY <1>2, <1>3

LEMMA AnotherQuestion ==
  ASSUME "about" \in DOMAIN probe', probe'.about \notin {"download", "conversion"}
  PROVE  AskedProgress'
  BY DEF AskedProgress, AskedReads

(* A transfer with one read more is a transfer.                              *)
LEMMA OneReadMore ==
  ASSUME NEW n, NEW reads \in Seq(Transferred(n)), InOrder(reads), n \in Nat,
         NEW read \in Transferred(n), reads # <<>> => read.source >= reads[Len(reads)].source
  PROVE  Append(reads, read) \in Seq(Transferred(n)) /\ InOrder(Append(reads, read))
<1> DEFINE more == Append(reads, read)
           k == Len(reads)
<1>1. /\ more \in Seq(Transferred(n)) /\ Len(more) = k + 1 /\ more[k + 1] = read
      /\ \A i \in 1 .. k : more[i] = reads[i]
  BY AppendIs
<1>2. k \in Nat /\ (k # 0 => reads # <<>>)
  OBVIOUS
<1>3. read.source \in 1 .. n /\ \A i \in 1 .. k : reads[i].source \in 1 .. n
  <2>1. \A i \in 1 .. k : reads[i] \in Transferred(n)
    BY ElementOfSeq
  <2> QED
    BY <2>1 DEF Transferred
<1>4. k # 0 => read.source >= reads[k].source
  BY <1>2
<1>5. \A i \in 1 .. k - 1 : reads[i].source <= reads[i + 1].source
  BY DEF InOrder
<1> HIDE DEF more, k
<1>6. ASSUME NEW i \in 1 .. k PROVE more[i].source <= more[i + 1].source
  <2>1. CASE i = k
    <3>1. k # 0 /\ more[i] = reads[k] /\ more[i + 1] = read
      BY <1>1, <1>2, <2>1
    <3>2. read.source >= reads[k].source /\ reads[k].source \in Int /\ read.source \in Int
      BY <1>2, <1>3, <1>4, <3>1
    <3> QED
      BY <3>1, <3>2
  <2>2. CASE i # k
    <3>1. i \in 1 .. k - 1 /\ i + 1 \in 1 .. k
      BY <1>2, <2>2
    <3> QED
      BY <1>1, <1>5, <3>1
  <2> QED
    BY <2>1, <2>2
<1>7. \A i \in 1 .. Len(more) - 1 : i \in 1 .. k
  BY <1>1, <1>2
<1>8. InOrder(more)
  BY <1>6, <1>7 DEF InOrder
<1> QED
  BY <1>1, <1>8 DEF more

LEMMA AskedProgressStays ==
  ASSUME AskedProgress, [ProbeNext]_probe
  PROVE  AskedProgress'
<1>1. CASE Begin
  <2>1. PICK expected \in {1, 2}, estimate \in {0, 2000} :
           probe' = [about |-> "download", expected |-> expected, estimate |-> estimate,
                     reads |-> <<>>]
    BY <1>1, Zenon DEF Begin
  <2>2. expected \in Nat \ {0} /\ estimate \in Nat
    OBVIOUS
  <2>3. <<>> \in Seq(Transferred(expected)) /\ InOrder(<<>>)
    BY DEF InOrder
  <2>4. /\ probe'.about = "download" /\ probe'.expected = expected /\ probe'.estimate = estimate
        /\ probe'.reads = <<>>
        /\ {"about", "expected", "estimate", "reads"} \subseteq DOMAIN probe'
    BY <2>1
  <2>5. IsTransfer(probe')
    BY <2>2, <2>3, <2>4 DEF IsTransfer
  <2> QED
    BY <2>4, <2>5 DEF AskedProgress, AskedReads
<1>2. CASE BeginConversion
  <2>1. probe' = [about |-> "conversion", reads |-> <<>>]
    BY <1>2 DEF BeginConversion
  <2>2. <<>> \in Seq(Heard)
    OBVIOUS
  <2>3. probe'.about = "conversion" /\ probe'.reads = <<>> /\ {"about", "reads"} \subseteq DOMAIN probe'
    BY <2>1
  <2>4. IsConversion(probe')
    BY <2>2, <2>3 DEF IsConversion
  <2> QED
    BY <2>3, <2>4 DEF AskedProgress, AskedReads
<1>3. CASE ReadMore
  <2> DEFINE n == probe.expected
  <2>1. PICK stream \in Pipes, source \in 1 .. n :
           \E read \in IF stream = "stdout" THEN ReportReads ELSE OtherReads :
              /\ probe.reads # <<>> => source >= probe.reads[Len(probe.reads)].source
              /\ probe' = [probe EXCEPT !.reads =
                    Append(@, [source |-> source, stream |-> stream, read |-> read])]
    BY <1>3, Zenon DEF ReadMore
  <2>10. PICK read \in IF stream = "stdout" THEN ReportReads ELSE OtherReads :
            /\ probe.reads # <<>> => source >= probe.reads[Len(probe.reads)].source
            /\ probe' = [probe EXCEPT !.reads =
                  Append(@, [source |-> source, stream |-> stream, read |-> read])]
    BY <2>1
  <2>2. probe.about = "download"
    BY <1>3, Zenon DEF ReadMore, MayRead
  <2> DEFINE item == [source |-> source, stream |-> stream, read |-> read]
             more == Append(probe.reads, item)
  <2>3. read \in Seq(Pieces)
    BY <2>10, ReadsOfRun
  <2>4. item \in Transferred(n) /\ item.source = source
    BY <2>3 DEF Transferred
  <2> HIDE DEF item
  <2>5. /\ n \in Nat \ {0} /\ probe.estimate \in Nat
        /\ probe.reads \in Seq(Transferred(n)) /\ InOrder(probe.reads)
        /\ {"about", "expected", "estimate", "reads"} \subseteq DOMAIN probe
    BY <2>2 DEF AskedProgress, AskedReads, IsTransfer
  <2>6. more \in Seq(Transferred(n)) /\ InOrder(more)
    <3> DEFINE reads == probe.reads
    <3>1. /\ n \in Nat /\ reads \in Seq(Transferred(n)) /\ InOrder(reads)
          /\ reads # <<>> => item.source >= reads[Len(reads)].source
      BY <2>4, <2>5, <2>10
    <3> HIDE DEF reads, n
    <3> QED
      BY <2>4, <3>1, OneReadMore DEF reads
  <2>7. probe' = [probe EXCEPT !.reads = more]
    BY <2>10 DEF item
  <2> HIDE DEF more
  <2>8. /\ probe'.about = "download" /\ probe'.expected = n /\ probe'.estimate = probe.estimate
        /\ probe'.reads = more /\ DOMAIN probe' = DOMAIN probe
    BY <2>2, <2>5, <2>7
  <2> HIDE DEF n
  <2>9. IsTransfer(probe')
    BY <2>5, <2>6, <2>8 DEF IsTransfer
  <2> QED
    BY <2>5, <2>8, <2>9 DEF AskedProgress, AskedReads
<1>4. CASE ConvertMore
  <2>1. PICK read \in {Converted(t) : t \in {0, 30, 20, 90, 120}} \union {BigRead},
             stream \in Pipes :
           probe' = [probe EXCEPT !.reads = Append(@, [stream |-> stream, read |-> read])]
    BY <1>4, Zenon DEF ConvertMore
  <2>2. probe.about = "conversion"
    BY <1>4, Zenon DEF ConvertMore, MayRead
  <2> DEFINE item == [stream |-> stream, read |-> read]
             more == Append(probe.reads, item)
  <2>3. read \in Seq(Pieces)
    <3>1. \A t \in {0, 30, 20, 90, 120} : Converted(t) \in Seq(Pieces)
      BY ConvertedOfRun
    <3>2. BigRead \in Seq(Pieces)
      BY ReadsOfRun
    <3> QED
      BY <3>1, <3>2
  <2>4. item \in Heard
    BY <2>3 DEF Heard
  <2> HIDE DEF item
  <2>5. probe.reads \in Seq(Heard) /\ {"about", "reads"} \subseteq DOMAIN probe
    BY <2>2 DEF AskedProgress, AskedReads, IsConversion
  <2>6. more \in Seq(Heard)
    BY <2>4, <2>5
  <2>7. probe' = [probe EXCEPT !.reads = more]
    BY <2>1 DEF item
  <2> HIDE DEF more
  <2>8. probe'.about = "conversion" /\ probe'.reads = more /\ DOMAIN probe' = DOMAIN probe
    BY <2>2, <2>5, <2>7
  <2>9. IsConversion(probe')
    BY <2>6, <2>8 DEF IsConversion
  <2> QED
    BY <2>5, <2>8, <2>9 DEF AskedProgress, AskedReads
<1>5. CASE AskName \/ AskNames
  <2>1. \/ \E text : probe' = [about |-> "name", text |-> text]
        \/ \E formats, containers :
              probe' = [about |-> "names", formats |-> formats, containers |-> containers]
    BY <1>5, Zenon DEF AskName, AskNames
  <2> QED
    BY <2>1, AnotherQuestion
<1>6. CASE AskFormats \/ AskMedia \/ AskAnswer
  <2>1. \E answer : probe' = [about |-> "media", answer |-> answer]
    BY <1>6, Zenon DEF AskFormats, AskMedia, AskAnswer, ProbeMedia
  <2> QED
    BY <2>1, AnotherQuestion
<1>7. CASE AskUpdate
  <2>1. \E update : probe' = [about |-> "update", update |-> update]
    BY <1>7, Zenon DEF AskUpdate
  <2> QED
    BY <2>1, AnotherQuestion
<1>8. CASE AskTools
  <2>1. \E config : probe' = [about |-> "tools", config |-> config]
    BY <1>8, Zenon DEF AskTools
  <2> QED
    BY <2>1, AnotherQuestion
<1>9. CASE UNCHANGED probe
  BY <1>9 DEF AskedProgress, AskedReads
<1> QED
  BY <1>1, <1>2, <1>3, <1>4, <1>5, <1>6, <1>7, <1>8, <1>9 DEF ProbeNext

(* What a run shows is honest, however many reads it may ask about and       *)
(* however long and many the lines of a tool may be (progress.rs:29, :97,    *)
(* service.rs:1406).                                                         *)
THEOREM ProgressStaysHonest == ProbeSpec => []ProgressIsHonest
<1>1. ProbeInit => AskedProgress
  BY DEF ProbeInit, Nothing, AskedProgress, AskedReads
<1>2. AskedProgress /\ [ProbeNext]_probe => AskedProgress'
  BY AskedProgressStays
<1>3. AskedProgress => ProgressIsHonest
  BY ProgressIsAlwaysHonest DEF AskedProgress
<1> QED
  BY <1>1, <1>2, <1>3, PTL DEF ProbeSpec
=============================================================================
