CONSTANTS
    MAX_NODE = 3
    Pairs <- MCAllPairs
    Costs = {1, 2}
    INF = 20
SPECIFICATION Spec
CHECK_DEADLOCK FALSE
INVARIANTS
    CostsAreLeast
