SPECIFICATION MCFairSpec
CONSTANTS
    FifoSize = 5
    High = 5
    Low = 0
    BufLen = 2
    Peers = {p1}
    UploadSizes = {1, 2}
    MixSamples = 2
    Retransmits = FALSE
    Returning = FALSE
    Strays = FALSE
    Scenes = {"single"}
    MaxNr = 1
    MaxUploads = 1
    MaxInFlight = 1
    MaxWrites = 1
    MaxIds = 2
    MaxResends = 0
PROPERTIES
    StopCancelsAll
CHECK_DEADLOCK FALSE
