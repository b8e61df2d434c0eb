CONSTANTS
    PipeCapacity = 1
    Capacity = 1
    MaxChunks = 2
    Limit = 1
    Inputs <- NoInputOrSome
    MaxReadErrors = 1
    MaxAsks = 2
SPECIFICATION Spec
INVARIANT RunnerTypeOK NoProcessLeft OutputIsComplete
PROPERTY StopsWhenAsked
CHECK_DEADLOCK FALSE
