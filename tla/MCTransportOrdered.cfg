CONSTANTS
    WINDOW = 3
    BATCH = 4
    FILE_PACKETS = 5
    Requests <- MCRequests
    Faults <- MCDuplicates
    MAX_FAULTS = 2
    MAX_EARLY = 2
SPECIFICATION FairSpec
INVARIANTS
    NoUndefinedFront
    NoSkippingAck
PROPERTIES
    ImplementsStream
    Termination
