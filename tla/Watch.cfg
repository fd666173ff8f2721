CONSTANTS
    Conns = {c1, c2}
    Dirs <- Chain
    maxWatchesPerConn = 2
    maxQueued = 2
    MaxChanges = 3
    MaxRequests = 2
SPECIFICATION FairSpec
INVARIANTS TypeOK NewDirsCovered
PROPERTIES DisconnectCompletes
CHECK_DEADLOCK FALSE
