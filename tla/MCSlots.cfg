CONSTANTS
    j1 = j1
    j2 = j2
    j3 = j3
    c1 = c1
    c2 = c2
    Jobs <- TwoJobs
    SequenceLimit = 3
    Concurrencies = {1}
    Clients <- OneClient
    Commands = {"enqueue","pause"}
    PostStages = {"finalizing"}
    MaxCrashes = 1
    MayShutdown = TRUE
    MayLag = FALSE
    Services = {TRUE}
    FaultyOps = {}
SPECIFICATION Spec
SYMMETRY Symmetry
INVARIANT WithinLimit ActiveHasRun ShutdownQuiescent SchedulerOnlyOnRequest
CHECK_DEADLOCK FALSE
