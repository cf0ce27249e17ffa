SPECIFICATION MCSpec
CONSTANTS
    ReadSize = 5
    SendBuffer = 5
    Shapes <- MCShapes
    MaxReports = 3
INVARIANTS
    TypeOK
    LinesInOrder
    ReportsIntact
CHECK_DEADLOCK FALSE
