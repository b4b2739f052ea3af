CONSTANTS
    WINDOW = 2
    BATCH = 4
    FILE_PACKETS = 5
    Requests <- MCRequests
SPECIFICATION Spec
CHECK_DEADLOCK FALSE
INVARIANTS
    TypeOK
    ForgottenIsWritten
    WindowRespected
    PopsInRange
    QueuesInOrder
    NoGaps
    ClosedIsComplete
    AcksAreCumulative
PROPERTIES
    ImplementsReplayingTransfer
