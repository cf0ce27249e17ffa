SPECIFICATION MCSpec
CONSTANTS
    FifoSize = 10
    High = 9
    Low = 2
    BufLen = 3
    UploadHeader = 2
    MixSamples = 2
    FirstDgramNr = 1
    MaxAccepted = 11
    MaxNr = 6
INVARIANTS
    TypeOK
    QueueBounded
    QueueIsNewest
    StatisticsExact
    DgramsAreLast
    RetransmitGapless
PROPERTIES
    DataOpensWindow
    ImplementsWindow
CHECK_DEADLOCK FALSE
