CONSTANTS
    j1 = j1
    j2 = j2
    j3 = j3
    c1 = c1
    c2 = c2
    Jobs <- OneJob
    SequenceLimit = 3
    Concurrencies = {1}
    Clients <- OneClient
    Commands <- AllCommands
    PostStages = {"merging","converting","finalizing"}
    MaxCrashes = 1
    MayShutdown = FALSE
    MayLag = TRUE
    Services = {TRUE,FALSE}
    FaultyOps <- AllFaults
SPECIFICATION Spec
INVARIANT TypeOK DriversAreRegistered 
CHECK_DEADLOCK FALSE
