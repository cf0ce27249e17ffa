SPECIFICATION Spec
CONSTANTS
    Inputs = {0, 1}
    Queues <- MCQueues
    ShrtMax = 3
    Multiplier = 2
    TxInterval = 3
    High = 8
    FifoSize = 8
    MaxLen = 4
INVARIANTS
    TypeOK
    ReadsInside
    ConsumedExact
    OutputIsClampedSum
    WritesInside
CHECK_DEADLOCK FALSE
