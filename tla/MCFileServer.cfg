CONSTANTS
    Clients = {c1, c2, c3}
    Contents <- MCContents
    NoFile <- MCNoFile
    Digits <- MCDigits
    MAXDATASIZE = 9
    BACKLOG = 2
    MAX_EDITS = 2
SYMMETRY MCSymmetry
SPECIFICATION Spec
INVARIANTS
    TypeOK
    ClientsSeeOneFile
    PrintedWasInTheFile
