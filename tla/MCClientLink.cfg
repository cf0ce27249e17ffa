SPECIFICATION MCFairSpec
CONSTANTS
    KeepalivePeriod = 2
    ReconnectPeriod = 2
    ConnectionPeriod = 3
    Resets = TRUE
    MaxTime = 9
    MaxDatagrams = 2
    MaxAhead = 6
INVARIANTS
    TypeOK
    AlarmIsFinal
    ChainPerId
    OneReader
    OneConnectLoop
PROPERTIES
    AlarmMeansSilence
    SilenceNoticed
CHECK_DEADLOCK FALSE
