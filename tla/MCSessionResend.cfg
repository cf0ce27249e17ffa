SPECIFICATION MCSpec
CONSTANTS
    FifoSize = 8
    High = 7
    Low = 0
    BufLen = 0
    UploadHeader = 2
    MixSamples = 2
    ClientBufferLen = 9
    ChunkSizes = {2, 4}
    MaxAge = 2
    SocketBuffer = 2
    Networks = {"lossless"}
    MaxRead = 7
    MaxToServer = 2
PROPERTIES
    SecondDataResends
CHECK_DEADLOCK FALSE
