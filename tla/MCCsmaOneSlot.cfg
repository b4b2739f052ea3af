CONSTANTS
    Inputs <- MCOneSlot
    T = 40
SPECIFICATION Spec
INVARIANTS
    CountsThisPacket
