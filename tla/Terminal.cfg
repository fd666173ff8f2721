CONSTANTS
    MAX_TABS = 2
    MaxPTYsPerConn = 2
    MaxTabs = 3
    MaxOpens = 2
    MaxConns = 3
    MaxInputs = 1
SPECIFICATION Spec
CHECK_DEADLOCK FALSE
INVARIANTS TypeOK NoStrays ExitsShown
PROPERTIES ClosedTabsEnd
