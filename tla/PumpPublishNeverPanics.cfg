CONSTANTS
    Publishers = {p1, p2}
    Reader = reader
    PumpBufferSize = 2
    MaxFrames = 2
SPECIFICATION Spec
INVARIANTS PublishNeverPanics
CHECK_DEADLOCK FALSE
