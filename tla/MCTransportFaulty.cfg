CONSTANTS
    WINDOW = 2
    BATCH = 2
    FILE_PACKETS = 3
    Requests <- MCAllRequests
    Faults <- MCAllFaults
    MAX_FAULTS = 2
    MAX_EARLY = 1
SPECIFICATION TransportSpec
CHECK_DEADLOCK FALSE
INVARIANTS
    TransportTypeOK
PROPERTIES
    ImplementsLossyTransport
