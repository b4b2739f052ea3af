CONSTANTS
    c1 = c1
    c2 = c2
    Clients <- MCClients
    Urls <- MCUrls
    ServerHost <- MCServerHost
    ServerPort <- MCServerPort
    Files <- MCFiles
    FN_LENGTH = 6
    BACKLOG = 1
SPECIFICATION Spec
INVARIANTS
    TypeOK
    OpensWhatTheUrlNames
    SavedIsBody
PROPERTIES
    EveryConnectionEnds
