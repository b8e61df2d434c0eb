CONSTANTS
    a = a
    b = b
    Jobs <- TwoJobs
    MaxCollisions = 2
    Sources <- BothChoices
    MaxAttempts = 3
    MaxMishaps = 1
    Absent = Absent
    Torn = Torn
SPECIFICATION Spec
INVARIANT OnlySoundOutputs EveryFileIsOwned ReservationIsExclusive NoBlockedNames PausedKeepsPartials CancelledIsClean
PROPERTY NoClobber ImplementsDirectory
SYMMETRY Symmetry
CHECK_DEADLOCK FALSE
