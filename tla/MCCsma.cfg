CONSTANTS
    Inputs <- MCInputs
    T = 40
SPECIFICATION Spec
INVARIANTS
    TypeOK
    BackoffInRange
    SoleTransmitter
    SlotsAreFrames
    DroppedInTime
