CONSTANTS
    a = a
    b = b
    Jobs <- TwoJobs
    Connections <- TwoConnections
    ActedOn <- OneJob
    Capacity = 1
    AtStart <- StatesAtStart
    MaxRevision <- Revisions
SPECIFICATION Spec
INVARIANT SnapshotCovers ViewIsCurrent
CHECK_DEADLOCK FALSE
