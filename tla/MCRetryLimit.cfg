CONSTANTS
    j1 = j1
    j2 = j2
    j3 = j3
    c1 = c1
    c2 = c2
    Jobs <- ThreeJobs
    SequenceLimit = 5
    Concurrencies = {2}
    Clients <- OneClient
    Commands = {"enqueue","retry"}
    PostStages = {"finalizing"}
    MaxCrashes = 0
    MayShutdown = FALSE
    MayLag = FALSE
    Services = {TRUE}
    FaultyOps = {}
SPECIFICATION Spec
SYMMETRY Symmetry
INVARIANT WithinLimit
CHECK_DEADLOCK FALSE
