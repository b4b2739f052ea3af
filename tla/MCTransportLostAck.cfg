CONSTANTS
    WINDOW = 2
    BATCH = 3
    FILE_PACKETS = 2
    Requests <- MCRequests
    Faults <- MCLosses
    MAX_FAULTS = 1
    MAX_EARLY = 0
SPECIFICATION TransportSpec
CHECK_DEADLOCK FALSE
INVARIANTS
    NoUndefinedFront
