CONSTANTS
    WINDOW = 3
    BATCH = 3
    FILE_PACKETS = 3
    Requests <- MCRequests
    Faults <- MCDelays
    MAX_FAULTS = 1
    MAX_EARLY = 0
SPECIFICATION FairSpec
CHECK_DEADLOCK FALSE
PROPERTIES
    SenderEnds
