CONSTANTS
    Conns = {c1, c2}
    Sessions = {s1}
    MaxPTYsPerConn = 1
    InputCapacity = 1
    MaxChunks = 2
    None = none
SPECIFICATION FairSpec
INVARIANTS TypeOK NoOrphans ExitIsFinal DropsCounted
PROPERTIES SessionsEnd
CHECK_DEADLOCK FALSE
