SPECIFICATION MCSpec
CONSTANTS
    KeepalivePeriod = 2
    ReconnectPeriod = 2
    ConnectionPeriod = 3
    Resets = FALSE
    MaxTime = 9
    MaxDatagrams = 2
    MaxAhead = 6
PROPERTIES
    TimerMeasuresSilence
CHECK_DEADLOCK FALSE
