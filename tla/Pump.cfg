CONSTANTS
    Publishers = {p1, p2}
    Reader = reader
    PumpBufferSize = 2
    MaxFrames = 2
SPECIFICATION FairSpec
INVARIANTS TypeOK InOrder Accounted
PROPERTIES WaitingSendIsSafe ImplementsChannel SendReturns
CHECK_DEADLOCK FALSE
