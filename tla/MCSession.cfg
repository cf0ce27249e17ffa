SPECIFICATION MCFairSpec
CONSTANTS
    FifoSize = 8
    High = 7
    Low = 0
    BufLen = 0
    UploadHeader = 2
    MixSamples = 2
    ClientBufferLen = 9
    ChunkSizes = {2, 4}
    MaxAge = 2
    SocketBuffer = 2
    Networks = {"lossless", "lossy", "reordering"}
    MaxRead = 6
    MaxToServer = 2
INVARIANTS
    TypeOK
    StreamIntact
    OverflowNeedsPipelining
    LastIsMissing
PROPERTIES
    Progress
    WedgedForGood
    ImplementsUplink
CHECK_DEADLOCK FALSE
