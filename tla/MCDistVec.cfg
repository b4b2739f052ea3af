CONSTANTS
    MAX_NODE = 5
    Pairs <- MCPairs
    Costs = {1, 3}
    INF = 20
SPECIFICATION Spec
CHECK_DEADLOCK FALSE
INVARIANTS
    TypeOK
    CostsAreLeast
    HopsDescend
    RoundsReach
    SmallestHop
    MessagePaysItsCost
