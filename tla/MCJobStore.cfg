CONSTANTS
    j1 = j1
    j2 = j2
    j3 = j3
    Jobs <- MCJobs
    SequenceLimit <- MCSequenceLimit
    Concurrencies <- MCConcurrencies
SPECIFICATION StoreSpec
SYMMETRY Symmetry
INVARIANT StoreTypeOK QueueOrder RowConsistent
PROPERTY QueuePlacesAreStable ImplementsHistory
