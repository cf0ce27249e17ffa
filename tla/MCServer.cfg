SPECIFICATION MCFairSpec
CONSTANTS
    FifoSize = 5
    High = 5
    Low = 0
    BufLen = 2
    Peers = {p1, p2}
    UploadSizes = {1, 2}
    MixSamples = 2
    Retransmits = TRUE
    Returning = TRUE
    Strays = TRUE
    Scenes = {"pair", "single"}
    MaxNr = 2
    MaxUploads = 2
    MaxInFlight = 1
    MaxWrites = 1
    MaxIds = 2
    MaxResends = 1
INVARIANTS
    TypeOK
    ReceiveChain
    MapsConsistent
    NoOrphanData
    CrashIsOwn
    OwnSamples
    AckIsCurrent
PROPERTIES
    AckPerUpload
    NeverDeaf
CHECK_DEADLOCK FALSE
