CONSTANTS
    Names <- MCNames
    Paths <- MCPaths
    Trees <- MCTrees
    Retries = 1
    MaxAsks = 2
    MaxWire = 2
    MaxDrops = 1
SPECIFICATION TreeSpec
CHECK_DEADLOCK FALSE
INVARIANTS TreeTypeOK TreeCatchesUp ListsArrive
