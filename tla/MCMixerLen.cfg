SPECIFICATION ServerSpec
CONSTANTS
    Inputs = {0, 1}
    Queues <- MCQueues
    ShrtMax = 3
    Multiplier = 2
    TxInterval = 3
    High = 5
    FifoSize = 8
    MaxLen = 4
INVARIANTS
    ReadsInside
CHECK_DEADLOCK FALSE
