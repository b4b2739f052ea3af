CONSTANTS
    MAX_NODE = 5
    Pairs <- MCPairs
    Costs = {1, 2, 3}
    INF = 20
SPECIFICATION FairSpec
CHECK_DEADLOCK FALSE
INVARIANTS
    TypeOK
    CostsAreLeast
    VisitedIsSettled
    RowsAreRight
    SmallestPredecessor
    MessagePaysItsCost
PROPERTIES
    MessagesArrive
