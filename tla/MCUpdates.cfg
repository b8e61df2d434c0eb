CONSTANTS
    background = background
    manual = manual
    Absent = Absent
    Versions <- TwoVersions
    Background = background
    Manual <- OneManual
SPECIFICATION Spec
INVARIANT OnlyWholeSets TwoStrikes NoHastyRollback
PROPERTY AtomicUnlessDisturbed
