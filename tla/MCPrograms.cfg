SPECIFICATION Spec
CONSTANTS
    FormatIds <- MCFormatIds
    MaxFormats = 3
    MaxThumbnails = 2
    MaxPublic = 1
    MaxDimension = 4000
    MaxNumber = 3000
    ShortestTolerance = 1000
    LongestTolerance = 5000
    LongestSeconds = 3000
    MaxLine = 8
    MaxLines = 3
    MaxUnit = 1000
    MaxReads = 4
    MaxChars = 3
    MaxBytes = 6
    WideBytes = 4
    Devices <- MCDevices
    MaxToken = 2
    MaxContainer = 1
    Substitute <- MCSubstitute
    Mark <- MCMark
    MaxName = 5
    AllTools <- MCAllTools
    Baseline <- MCBaseline
    Target = "here"
    MaxReceipt = 4
    MaxInventory = 4
    MaxArchive = 9
    AppVersion = 2
    ReservedFiles <- MCReserved
    VideoIds <- MCVideoIds
    Addresses <- MCAddresses
    Capacity = 2
    MaxProgress = 2
    MaxGeneration = 5
INVARIANTS
    ExitCodeTellsTheJob
    ShownAnalysisIsLatest
    OffersAreProducible
    
    NamesArePortable
    AcceptedUpdateVerifies
    OneTierUnlessOverridden
PROPERTY
    EveryCommandEnds
CHECK_DEADLOCK FALSE
