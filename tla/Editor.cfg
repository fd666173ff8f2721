CONSTANTS
    Files = {f, g}
    NoFile = NoFile
    MaxClock = 2
    MaxAsks = 2
    MaxWire = 2
    MaxDrops = 1
SYMMETRY FileSymmetry
SPECIFICATION EditorSpec
CHECK_DEADLOCK FALSE
INVARIANTS EditorTypeOK CleanMatches ShownIsFresh
PROPERTY EditsOutliveRefetch
