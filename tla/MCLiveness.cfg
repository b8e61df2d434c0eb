CONSTANTS
    j1 = j1
    j2 = j2
    j3 = j3
    c1 = c1
    c2 = c2
    Jobs <- OneJob
    SequenceLimit = 3
    Concurrencies = {1}
    Clients <- OneClient
    Commands = {"enqueue","pause","cancel","resume"}
    PostStages = {"finalizing"}
    MaxCrashes = 0
    MayShutdown = FALSE
    MayLag = FALSE
    Services = {TRUE}
    FaultyOps = {}
SPECIFICATION FairSpec
PROPERTY ActiveEventuallyStops CallsReturn
CHECK_DEADLOCK FALSE
